---- MODULE Spec2Model ----
(***************************************************************************)
(* dynquee: the dynamic marquee for Recalbox (src/dynquee.py).             *)
(*                                                                         *)
(* The module models the threads of the running program and the objects    *)
(* they share:                                                             *)
(*   - the main thread: EventHandler.__init__, startup(), readEvents(),    *)
(*     MQTTSubscriber.getEvent(), Slideshow.stop() and the __del__ methods; *)
(*   - the MQTT network thread: MQTTSubscriber._onMessage;                 *)
(*   - SignalHandler._sigReceived, run by the main thread on SIGTERM;      *)
(*   - the queue reader thread: Slideshow._readMediaQueue;                 *)
(*   - the slideshow worker threads: Slideshow._runSlideshow;              *)
(*   - the video threads: Slideshow._startVideo;                           *)
(*   - the external viewer / player / clear commands, as processes.        *)
(* A step of a thread is one access to shared state; time is abstracted:   *)
(* a wait with a timeout may return at any moment.                         *)
(***************************************************************************)
EXTENDS Integers, Sequences, FiniteSets, TLC

(***************************************************************************)
(* Bounds of the model.                                                    *)
(***************************************************************************)
\* number of messages the broker publishes in Spec and RunSpec
MaxEvents == 1
\* number of SIGTERM deliveries
MaxSignals == 1
\* number of process-table slots (Popen fails with OSError when none is free)
MaxProcs == 2
\* number of video threads that can exist at once
MaxVideoThreads == 1
\* number of messages the broker publishes in SubscriberSpec
MaxMessages == 2
\* length of the lists handed to setMedia in SetMediaSpec
MaxLen == 3
\* number of events handled in HandlerSpec
MaxHandled == 4
\* number of terms of a precedence rule, and of subterms of a term, in ResolveSpec
MaxTerms == 3
MaxSubTerms == 2
\* length of the file name stems in GlobSpec
MaxName == 3
\* number of lines of a parameter snapshot in ParseSpec
MaxLines == 3

(***************************************************************************)
(* Media files.  AllFiles lists the files of the media directory; PathRank *)
(* is the order of the path strings (upper case sorts before lower case),  *)
(* StemRank the order of the lower-cased file stems.                       *)
(***************************************************************************)
AllFiles == {"B.png", "a.png", "v.mp4"}

PathRank == [f \in AllFiles |->
               CASE f = "B.png" -> 1 [] f = "a.png" -> 2 [] f = "v.mp4" -> 3]

\* PurePath(path).stem.lower()
fileStem == [f \in AllFiles |->
               CASE f = "B.png" -> "b" [] f = "a.png" -> "a" [] f = "v.mp4" -> "v"]

StemRank == [f \in AllFiles |->
               CASE fileStem[f] = "a" -> 1 [] fileStem[f] = "b" -> 2 [] fileStem[f] = "v" -> 3]

\* config [media] video_file_extensions = .mp4
VideoFiles == {"v.mp4"}

isVideo(filePath) == filePath \in VideoFiles

Range(s) == {s[i] : i \in 1..Len(s)}

\* list.sort(): the elements of S in increasing rank
RECURSIVE SortSet(_, _)
SortSet(S, rank) ==
  IF S = {} THEN <<>>
  ELSE LET m == CHOOSE x \in S : \A y \in S : rank[x] <= rank[y]
       IN  <<m>> \o SortSet(S \ {m}, rank)

\* a setMedia that queues the list as given
NormaliseAsGiven(mediaPaths) == mediaPaths

\* setMedia's normalisation: list(set(mediaPaths)) then sort()
Normalise(mediaPaths) == SortSet(Range(mediaPaths), PathRank)

\* all orders of the elements of a duplicate-free list (random.shuffle)
Perms(s) ==
  {p \in [1..Len(s) -> Range(s)] : \A i, j \in 1..Len(s) : i # j => p[i] # p[j]}

\* the lists the media manager can hand to setMedia (getMedia / getStartupMedia)
MediaInputs == {<<>>, <<"a.png">>, <<"a.png", "B.png", "a.png">>, <<"v.mp4">>}

\* the [slideshow] sections the model is checked with
Configs == {[shuffle |-> TRUE, terminate_viewer |-> TRUE],
            [shuffle |-> FALSE, terminate_viewer |-> FALSE]}

\* payloads of broker messages: an event name, or an empty payload
Payloads == {"rungame", ""}

\* getEvent's result when the exit flag ended the wait
None == "None"


\* names of the two exit events registered with the signal handler
SubscriberExit == "_exitEvent"
SlideshowExit == "_exitSignalled"
ExitEvents == {SubscriberExit, SlideshowExit}

\* number of slideshow worker threads the queue reader can ever start:
\* one per media set queued by startup() and by the events
MaxWorkers == MaxEvents + 1

Workers == 1..MaxWorkers
VideoThreads == 1..MaxVideoThreads
ProcSlots == 1..MaxProcs

\* values of a subprocess handle besides a slot of the process table:
\* None, and a Popen object whose process has exited and has been reaped
NoProc == 0
Reaped == -1

FreeProc == [kind |-> "free", st |-> "free"]

(***************************************************************************)
(* Events and their parameters.  An event parameter dict is a record of    *)
(* the keys the handler reads; a key that is absent reads as the empty     *)
(* string, as evParams.get(key, '') does.  IsFolder is left out: no        *)
(* decision of the handler reads it.                                       *)
(***************************************************************************)
Actions == {"systembrowsing", "rungame", "endgame", "sleep", "wakeup"}
SystemIds == {"", "snes", "mame"}
GamePaths == {"", "g.zip"}

\* the empty dict
NoParams == [Action |-> "", SystemId |-> "", GamePath |-> ""]

\* the dicts getEventParams can return
ParamSets == [Action : Actions, SystemId : SystemIds, GamePath : GamePaths] \cup {NoParams}

(***************************************************************************)
(* MQTTSubscriber.getEventParams.  The state source is the local file or   *)
(* the remote URL, with what is wrong with it; a line is a sequence of     *)
(* characters or words, "=" and "\r" among them; a dict is a function.     *)
(***************************************************************************)
Faults == {"none", "missing_file", "malformed_json", "http_error"}

\* the sources with the given snapshots: a local file can be missing, a
\* remote fetch can fail or answer something that is no JSON
sourcesOf(snapshots) ==
  {src \in [is_local : BOOLEAN, fault : Faults, lines : snapshots] :
     IF src.is_local THEN src.fault \in {"none", "missing_file"}
     ELSE src.fault \in {"none", "malformed_json", "http_error"}}

\* str.strip
RECURSIVE strip(_)
strip(line) ==
  IF line = <<>> THEN <<>>
  ELSE IF Head(line) = "\r" THEN strip(Tail(line))
  ELSE IF line[Len(line)] = "\r" THEN strip(SubSeq(line, 1, Len(line) - 1))
  ELSE line

\* str.split('=', 1)
split(line) ==
  LET at == {i \in 1..Len(line) : line[i] = "="}
      first == CHOOSE i \in at : \A j \in at : i <= j
  IN  IF at = {} THEN <<line>>
      ELSE <<SubSeq(line, 1, first - 1), SubSeq(line, first + 1, Len(line))>>

\* params[key] = value
put(params, key, value) ==
  [k \in DOMAIN params \cup {key} |-> IF k = key THEN value ELSE params[k]]

\* the loop over rawState: key, value = line.strip().split('=', 1) raises
\* ValueError when the split gives one part
RECURSIVE parseLines(_, _)
parseLines(rawState, params) ==
  IF rawState = <<>> THEN [raised |-> "", params |-> params]
  ELSE LET parts == split(strip(Head(rawState)))
       IN  IF Len(parts) # 2 THEN [raised |-> "ValueError", params |-> params]
           ELSE parseLines(Tail(rawState), put(params, parts[1], parts[2]))

\* _getEventParamsFromLocalhost: open() is not guarded
getEventParamsFromLocalhost(src) ==
  IF src.fault = "missing_file" THEN [raised |-> "FileNotFoundError", lines |-> <<>>]
  ELSE [raised |-> "", lines |-> src.lines]

\* _getEventParamsFromRemote: URLError and JSONDecodeError are caught
getEventParamsFromRemote(src) ==
  IF src.fault \in {"malformed_json", "http_error"} THEN [raised |-> "", lines |-> <<>>]
  ELSE [raised |-> "", lines |-> src.lines]

\* MQTTSubscriber.getEventParams: the exception it ends by, if any, and the
\* dict it returns
getEventParams(src) ==
  LET rawState == IF src.is_local THEN getEventParamsFromLocalhost(src)
                  ELSE getEventParamsFromRemote(src)
  IN  IF rawState.raised # "" THEN [raised |-> rawState.raised, params |-> <<>>]
      ELSE parseLines(rawState.lines, <<>>)

\* evParams.get(key, '') for the keys the handler reads
paramsRead(params) ==
  LET get(key) == IF <<key>> \in DOMAIN params /\ params[<<key>>] # <<>>
                    THEN params[<<key>>][1] ELSE ""
  IN  [Action |-> get("Action"), SystemId |-> get("SystemId"), GamePath |-> get("GamePath")]

\* ESState.fromEvent
fromEvent(evParams) ==
  [action |-> evParams.Action, system |-> evParams.SystemId, game |-> evParams.GamePath]

\* ESState()
NoState == [action |-> "", system |-> "", game |-> ""]

(***************************************************************************)
(* Strings the arcade conversion reads, as sequences of characters.        *)
(***************************************************************************)
Chars ==
  [s \in {"", "snes", "mame", "neo", "fbneo", "arcade", "fbneo mame"} |->
     CASE s = "" -> <<>>
       [] s = "snes" -> <<"s", "n", "e", "s">>
       [] s = "mame" -> <<"m", "a", "m", "e">>
       [] s = "neo" -> <<"n", "e", "o">>
       [] s = "fbneo" -> <<"f", "b", "n", "e", "o">>
       [] s = "arcade" -> <<"a", "r", "c", "a", "d", "e">>
       [] s = "fbneo mame" -> <<"f", "b", "n", "e", "o", " ", "m", "a", "m", "e">>]

\* Python's "a in b" on two strings
IsSubstring(a, b) ==
  \E i \in 0..(Len(b) - Len(a)) : SubSeq(b, i + 1, i + Len(a)) = a

\* EventHandler._convertArcadeSystems
convertArcadeSystems(evParams, enabled, arcadeSystems) ==
  IF enabled /\ evParams.SystemId # ""
       /\ IsSubstring(Chars[evParams.SystemId], Chars[arcadeSystems])
    THEN [evParams EXCEPT !.SystemId = "arcade"]
    ELSE evParams

(***************************************************************************)
(* The state-change filter.  A rule set maps actions to rules; "" stands   *)
(* for an action without an entry.                                         *)
(***************************************************************************)
Rules == {"never", "always", "action", "system", "game", "system/game", "XXXX"}

\* a lookup that does not read the configuration
ruleOfIgnored(changeRules, action) == "always"

\* a lookup that takes a missing entry for the rule always
ruleOfOrAlways(changeRules, action) ==
  IF action \in DOMAIN changeRules THEN changeRules[action] ELSE "always"

\* changeRules.get(action, '')
ruleOf(changeRules, action) ==
  IF action \in DOMAIN changeRules THEN changeRules[action] ELSE ""

\* an unrecognised rule that is passed over in silence
unrecognisedRuleIgnored(changeWhen) == [changed |-> FALSE, error |-> FALSE]

\* unrecognised state change rule: log.error(...); return True
unrecognisedRule(changeWhen) == [changed |-> TRUE, error |-> TRUE]

\* a return of _hasStateChanged that logs no error
Returns(changed) == [changed |-> changed, error |-> FALSE]

\* EventHandler._hasStateChanged with _currentState as third argument: the
\* value returned, and whether log.error was called
filterOutcome(evParams, changeRules, current) ==
  LET newState == fromEvent(evParams)
      changeWhen == ruleOf(changeRules, newState.action)
  IN  IF newState.action = "wakeup" THEN Returns(TRUE)
      ELSE IF current.action = "endgame" THEN Returns(TRUE)
      ELSE IF changeWhen \in {"", "never"} THEN Returns(FALSE)
      ELSE IF changeWhen = "always" THEN Returns(TRUE)
      ELSE IF changeWhen = "action" THEN Returns(~(newState.action = current.action))
      ELSE IF changeWhen = "system" THEN Returns(~(newState.system = current.system))
      ELSE IF changeWhen = "game" THEN Returns(~(newState.game = current.game))
      ELSE IF changeWhen = "system/game"
             THEN Returns(~(newState.system = current.system /\ newState.game = current.game))
      ELSE unrecognisedRule(changeWhen)

\* a filter without the test of the current action for endgame
hasStateChangedNoEndgame(evParams, changeRules, current) ==
  LET newState == fromEvent(evParams)
      changeWhen == ruleOf(changeRules, newState.action)
  IN  IF newState.action = "wakeup" THEN TRUE
      ELSE IF changeWhen \in {"", "never"} THEN FALSE
      ELSE IF changeWhen = "always" THEN TRUE
      ELSE IF changeWhen = "action" THEN ~(newState.action = current.action)
      ELSE IF changeWhen = "system" THEN ~(newState.system = current.system)
      ELSE IF changeWhen = "game" THEN ~(newState.game = current.game)
      ELSE IF changeWhen = "system/game"
             THEN ~(newState.system = current.system /\ newState.game = current.game)
      ELSE TRUE

\* the value EventHandler._hasStateChanged returns
hasStateChanged(evParams, changeRules, current) ==
  filterOutcome(evParams, changeRules, current).changed

(***************************************************************************)
(* Glob patterns and file names, as sequences of characters.  "Dz" stands  *)
(* for the titlecase letter U+01C5, "dz" and "DZ" for its lowercase        *)
(* (U+01C6) and uppercase (U+01C4) forms.                                  *)
(***************************************************************************)
NameChars == {"a", "A", "1", "[", "]", "*", "Dz"}

\* str.isalpha
isalpha(char) == char \in {"a", "A", "Dz", "dz", "DZ"}

\* str.lower and str.upper of one character
lower(char) ==
  CASE char = "A" -> "a"
    [] char \in {"Dz", "DZ"} -> "dz"
    [] OTHER -> char

upper(char) ==
  CASE char = "a" -> "A"
    [] char \in {"Dz", "dz"} -> "DZ"
    [] OTHER -> char

\* pattern.replace('[', '[[]')
RECURSIVE escapeBrackets(_)
escapeBrackets(pattern) ==
  IF pattern = <<>> THEN <<>>
  ELSE (IF Head(pattern) = "[" THEN <<"[", "[", "]">> ELSE <<Head(pattern)>>)
         \o escapeBrackets(Tail(pattern))

\* _upperOrLowerChar: f"[{char.lower()}{char.upper()}]" if char.isalpha() else char
upperOrLowerChar(char) ==
  IF isalpha(char) THEN <<"[", lower(char), upper(char), "]">> ELSE <<char>>

RECURSIVE joinChars(_)
joinChars(pattern) ==
  IF pattern = <<>> THEN <<>>
  ELSE upperOrLowerChar(Head(pattern)) \o joinChars(Tail(pattern))

\* MediaManager._caseInsensitiveGlobPattern
caseInsensitiveGlobPattern(pattern) == joinChars(escapeBrackets(pattern))

\* fnmatch.fnmatchcase on character sequences: "*", "?" and classes.
\* classEnd is the index of the "]" that closes the class opened at pat[1],
\* or 0 when there is none and the "[" stands for itself; a "]" right after
\* the "[" belongs to the class.
RECURSIVE fnmatch(_, _)
fnmatch(name, pat) ==
  LET from == IF Len(pat) >= 2 /\ pat[2] = "]" THEN 3 ELSE 2
      ends == {j \in from..Len(pat) : pat[j] = "]"}
      classEnd == IF ends = {} THEN 0 ELSE CHOOSE j \in ends : \A k \in ends : j <= k
  IN  IF pat = <<>> THEN name = <<>>
      ELSE IF Head(pat) = "*"
        THEN fnmatch(name, Tail(pat)) \/ (name # <<>> /\ fnmatch(Tail(name), pat))
      ELSE IF Head(pat) = "?"
        THEN name # <<>> /\ fnmatch(Tail(name), Tail(pat))
      ELSE IF Head(pat) = "[" /\ classEnd # 0
        THEN /\ name # <<>>
             /\ Head(name) \in {pat[k] : k \in 2..(classEnd - 1)}
             /\ fnmatch(Tail(name), SubSeq(pat, classEnd + 1, Len(pat)))
      ELSE name # <<>> /\ Head(name) = Head(pat) /\ fnmatch(Tail(name), Tail(pat))

(***************************************************************************)
(* The media manager.  A precedence rule is a list of search terms, a term *)
(* a list of subterms; Glob is the content of the media directory by glob  *)
(* pattern.                                                                *)
(***************************************************************************)
MediaRules ==
  [a \in Actions \cup {"default"} |->
     CASE a = "rungame" -> <<<<"rom">>, <<"system">>, <<"generic">>>>
       [] a = "systembrowsing" -> <<<<"system">>, <<"generic">>>>
       [] a = "sleep" -> <<<<"blank">>>>
       [] OTHER -> <<<<"generic">>>>]

\* MediaManager._getPrecedenceRule
getPrecedenceRule(action) ==
  IF action \in Actions THEN MediaRules[action] ELSE MediaRules["default"]

\* os.path.splitext(os.path.basename(GamePath))[0]
gameBasename(gamePath) == IF gamePath = "g.zip" THEN "g" ELSE ""

\* glob.glob on the media directory
Glob(pattern) ==
  CASE pattern = <<"system", "snes">> -> <<"a.png">>
    [] pattern = <<"system", "mame">> -> <<"v.mp4">>
    [] pattern = <<"snes", "g">> -> <<"B.png">>
    [] pattern = <<"generic", "*">> -> <<"a.png", "B.png">>
    [] OTHER -> <<>>

\* MediaManager._getMediaForSearchTerm
getMediaForSearchTerm(searchTerm, evParams) ==
  CASE searchTerm = "rom" -> Glob(<<evParams.SystemId, gameBasename(evParams.GamePath)>>)
    [] searchTerm = "system" -> Glob(<<"system", evParams.SystemId>>)
    [] searchTerm = "generic" -> Glob(<<"generic", "*">>)
    [] OTHER -> <<>>

\* what _getMediaForSearchTerm returns for each search term with a glob
\* pattern; every other term is unrecognised
foundFor(evParams) ==
  [t \in {"rom", "system", "generic"} |-> getMediaForSearchTerm(t, evParams)]

\* _getMediaForSearchTerm given the matches of the recognised terms: an
\* unrecognised term is skipped
filesOfTerm(subTerm, found) == IF subTerm \in DOMAIN found THEN found[subTerm] ELSE <<>>

\* a term that stands for its first subterm only
termFilesFirstOnly(subTerms, found) ==
  IF subTerms = <<>> THEN <<>> ELSE filesOfTerm(Head(subTerms), found)

\* files += subTermFiles, over the subterms of one term
RECURSIVE termFilesIn(_, _)
termFilesIn(subTerms, found) ==
  IF subTerms = <<>> THEN <<>>
  ELSE filesOfTerm(Head(subTerms), found) \o termFilesIn(Tail(subTerms), found)

termFiles(subTerms, evParams) == termFilesIn(subTerms, foundFor(evParams))

\* no default image
DefaultImageNone == <<>>

\* config [media] default_image
DefaultImage == <<"a.png">>

\* a resolver that does not know the term blank
isBlankNever(searchTerm) == FALSE

\* if searchTerm == 'blank'
isBlank(searchTerm) == searchTerm = <<"blank">>

\* the loop of MediaManager.getMedia over the terms of the rule
RECURSIVE firstFoundIn(_, _)
firstFoundIn(rule, found) ==
  IF rule = <<>> THEN DefaultImage
  ELSE IF isBlank(Head(rule)) THEN <<>>
  ELSE IF termFilesIn(Head(rule), found) # <<>> THEN termFilesIn(Head(rule), found)
  ELSE firstFoundIn(Tail(rule), found)

firstFound(rule, evParams) == firstFoundIn(rule, foundFor(evParams))

\* MediaManager.getMedia
getMedia(evParams) == firstFound(getPrecedenceRule(evParams.Action), evParams)

VARIABLES
  \* --- main thread (EventHandler, MQTTSubscriber.getEvent, Slideshow.stop)
  mpc,             \* position of the main thread
  stopRet,         \* caller of the running stop(): "readEvents" or "__del__"
  mJoin,           \* thread object stop() is joining
  evResult,        \* result of the last getEvent call
  stopsDone,       \* number of stop() calls that have returned
  deleted,         \* objects whose __del__ has completed
  \* --- MQTTSubscriber
  subscribed,      \* start() has connected to the broker
  msgQueue,        \* _messageQueue
  nPublished,      \* messages published by the broker so far
  delivered,       \* ids of the messages getEvent has returned, in order
  \* --- SignalHandler
  flag,            \* the threading.Event objects _exitEvent and _exitSignalled
  sigEvents,       \* SignalHandler._events
  nSignals,        \* SIGTERMs delivered so far
  \* --- Slideshow
  queue,           \* _queue
  currentMedia,    \* _currentMedia
  mediaChange,     \* unread bytes in the pipe of WaitableEvent _mediaChange
  videoFinish,     \* unread bytes in the pipe of WaitableEvent _videoFinish
  slideshowThread, \* _slideshowThread (0: None)
  thr,             \* state of each slideshow worker thread object
  qpc,             \* position of the queue reader thread
  qMedia,          \* mediaPaths of the queue reader
  wpc,             \* position of each slideshow worker
  wOrder,          \* mediaPaths of each slideshow worker
  wIdx,            \* index of the worker's current item in mediaPaths
  wH,              \* Popen object a worker is waiting on
  vpc,             \* position of each video thread
  vH,              \* Popen object a video thread is waiting on
  videoThread,     \* _videoThread (0: not yet assigned)
  subProcess,      \* _subProcess
  procs,           \* the process table: the external commands launched
  shuffle,         \* config [slideshow] shuffle
  terminateViewer, \* config [slideshow] terminate_viewer
  \* --- history
  lastEnq,         \* the media set most recently put on the queue
  wStale,          \* workers displaying a set that a later setMedia replaced
  launchFailed,    \* workers whose launch for the current item raised OSError
  \* --- EventHandler
  currentState,    \* _currentState
  previousEvParams, \* _previousEvParams
  stateBeforeSleep, \* _stateBeforeSleep
  changeRules,     \* config [change]
  arcadeEnabled,   \* _arcadeSystemEnabled
  arcadeSystems,   \* _arcadeSystems
  hParams,         \* params of readEvents: the dict getEventParams returned
  \* --- history of the handler
  recent,          \* params of the last events handled (at most three), as filtered
  hChanged,        \* result of the last _hasStateChanged call
  hQuery,          \* params of the last getMedia call of _handleEvent, if it made one
  \* --- application of a single function to a chosen argument
  fnArg,           \* the argument
  fnRes            \* the result, once the function has been applied

mainVars == <<mpc, stopRet, mJoin, evResult, stopsDone, deleted>>
subVars == <<subscribed, msgQueue, nPublished, delivered>>
sigVars == <<flag, sigEvents, nSignals>>
qVars == <<qpc, qMedia>>
wVars == <<wpc, wOrder, wIdx, wH>>
vVars == <<vpc, vH, videoThread>>
procVars == <<subProcess, procs>>
cfgVars == <<shuffle, terminateViewer>>
histVars == <<lastEnq, wStale, launchFailed>>

handlerVars == <<currentState, previousEvParams, stateBeforeSleep, changeRules,
                 arcadeEnabled, arcadeSystems, hParams, recent, hChanged, hQuery>>
fnVars == <<fnArg, fnRes>>
otherVars == <<handlerVars, fnVars>>

vars == <<mainVars, subVars, sigVars, queue, currentMedia, mediaChange, videoFinish,
          slideshowThread, thr, qVars, wVars, vVars, procVars, cfgVars, histVars, otherVars>>

(***************************************************************************)
(* The state after the module globals and EventHandler's _mqttSubscriber,  *)
(* _mediaManager and _slideshow have been constructed: both exit events    *)
(* are registered, the queue reader thread has been started, nothing is    *)
(* queued or displayed.                                                    *)
(***************************************************************************)
EngineInit ==
  /\ mpc = "m_start"
  /\ stopRet = "readEvents"
  /\ mJoin = 0
  /\ evResult = None
  /\ stopsDone = 0
  /\ deleted = {}
  /\ subscribed = FALSE
  /\ msgQueue = <<>>
  /\ nPublished = 0
  /\ delivered = <<>>
  /\ flag = [e \in ExitEvents |-> FALSE]
  /\ sigEvents = <<SubscriberExit, SlideshowExit>>
  /\ nSignals = 0
  /\ queue = <<>>
  /\ currentMedia = <<>>
  /\ mediaChange = 0
  /\ videoFinish = 0
  /\ slideshowThread = 0
  /\ thr = [w \in Workers |-> "unborn"]
  /\ qpc = "q_loop"
  /\ qMedia = <<>>
  /\ wpc = [w \in Workers |-> "none"]
  /\ wOrder = [w \in Workers |-> <<>>]
  /\ wIdx = [w \in Workers |-> 0]
  /\ wH = [w \in Workers |-> NoProc]
  /\ vpc = [v \in VideoThreads |-> "free"]
  /\ vH = [v \in VideoThreads |-> NoProc]
  /\ videoThread = 0
  /\ subProcess = NoProc
  /\ procs = [s \in ProcSlots |-> FreeProc]
  /\ \E c \in Configs : shuffle = c.shuffle /\ terminateViewer = c.terminate_viewer
  /\ lastEnq = <<>>
  /\ wStale = {}
  /\ launchFailed = {}

\* no getMedia call made / no function applied
NoQuery == <<>>

\* config [change] and the arcade options of config [media]
ChangeConfigs ==
  {[systembrowsing |-> "system", rungame |-> "never", endgame |-> "always",
    sleep |-> "always"],
   [systembrowsing |-> "action", rungame |-> "system/game", endgame |-> "never",
    sleep |-> "game", wakeup |-> "never"]}

ArcadeConfigs == {[enabled |-> FALSE, systems |-> ""], [enabled |-> TRUE, systems |-> "fbneo mame"]}

\* EventHandler.__init__: no state recorded, the options read from the config
HandlerInit(changeConfigs, arcadeConfigs) ==
  /\ currentState = NoState
  /\ previousEvParams = NoParams
  /\ stateBeforeSleep = NoState
  /\ changeRules \in changeConfigs
  /\ \E c \in arcadeConfigs : arcadeEnabled = c.enabled /\ arcadeSystems = c.systems
  /\ hParams = NoParams
  /\ recent = <<>>
  /\ hChanged = FALSE
  /\ hQuery = NoQuery

FnIdle == fnArg = NoQuery /\ fnRes = NoQuery

Init ==
  /\ EngineInit
  /\ HandlerInit({CHOOSE c \in ChangeConfigs : c.rungame = "never"},
                 {CHOOSE c \in ArcadeConfigs : ~c.enabled})
  /\ FnIdle

(***************************************************************************)
(* WaitableEvent: the event is set while its pipe holds an unread byte.    *)
(***************************************************************************)
\* WaitableEvent.is_set: select() on the read end of the pipe
is_set(pipe) == pipe > 0

(***************************************************************************)
(* Slideshow.setMedia: normalise the list and put it on the queue.  The    *)
(* history variables record the set and which running workers now display *)
(* a replaced set.                                                         *)
(***************************************************************************)
setMedia(mediaPaths) ==
  /\ queue' = Append(queue, Normalise(mediaPaths))
  /\ lastEnq' = Normalise(mediaPaths)
  /\ IF Normalise(mediaPaths) # currentMedia
       THEN wStale' = wStale \cup {w \in Workers : thr[w] = "alive"}
       ELSE UNCHANGED wStale
  /\ UNCHANGED launchFailed

slideVars == <<currentMedia, mediaChange, videoFinish, slideshowThread, thr,
               qVars, wVars, vVars, procVars, cfgVars>>

(***************************************************************************)
(* EventHandler.__init__ (tail): self._mqttSubscriber.start()              *)
(***************************************************************************)
SubscriberStart ==
  /\ mpc = "m_start"
  /\ subscribed' = TRUE
  /\ mpc' = "m_startup"
  /\ UNCHANGED <<stopRet, mJoin, evResult, stopsDone, deleted, msgQueue, nPublished,
                 delivered, sigVars, queue, slideVars, histVars>>
  /\ UNCHANGED otherVars

(***************************************************************************)
(* EventHandler.startup: queue the startup media, if there are any.        *)
(***************************************************************************)
startupFrom(found) ==
  /\ mpc = "m_startup"
  /\ \E mediaPaths \in found :
       IF mediaPaths # <<>>
         THEN setMedia(mediaPaths)
         ELSE UNCHANGED <<queue, histVars>>
  /\ mpc' = "ge_check"
  /\ UNCHANGED <<stopRet, mJoin, evResult, stopsDone, deleted, subVars, sigVars, slideVars>>
  /\ UNCHANGED otherVars

startup == startupFrom(MediaInputs)

(***************************************************************************)
(* MQTTSubscriber.getEvent: the loop test, then the queue get with its     *)
(* timeout.                                                                *)
(***************************************************************************)
\* while not self._exitEvent.is_set()
getEventLoopTest(exitEvent) == ~exitEvent

getEventCheck ==
  /\ mpc = "ge_check"
  /\ IF getEventLoopTest(flag[SubscriberExit])
       THEN /\ mpc' = "ge_get"
            /\ UNCHANGED evResult
       ELSE /\ mpc' = "m_got"
            /\ evResult' = None
  /\ UNCHANGED <<stopRet, mJoin, stopsDone, deleted, subVars, sigVars, queue, slideVars,
                 histVars>>
  /\ UNCHANGED otherVars

\* a get that leaves the message on the queue
afterGetKeep(q) == q

\* what _messageQueue.get leaves on the queue
afterGet(q) == Tail(q)

getEventGet ==
  /\ mpc = "ge_get"
  /\ IF msgQueue # <<>>
       THEN /\ evResult' = Head(msgQueue).payload
            /\ delivered' = Append(delivered, Head(msgQueue).id)
            /\ msgQueue' = afterGet(msgQueue)
            /\ mpc' = "m_got"
       ELSE \* queue.Empty after checkInterval
            /\ mpc' = "ge_check"
            /\ UNCHANGED <<evResult, delivered, msgQueue>>
  /\ UNCHANGED <<stopRet, mJoin, stopsDone, deleted, subscribed, nPublished, sigVars, queue,
                 slideVars, histVars>>
  /\ UNCHANGED otherVars

(***************************************************************************)
(* EventHandler.readEvents: leave the loop through stop() when getEvent    *)
(* returned nothing, else read the params and handle the event.  The state *)
(* change filter and the media manager are abstracted here: an event       *)
(* either queues no media or queues one of the lists of MediaInputs.       *)
(***************************************************************************)
\* "if not event": None and the empty string are both false
notEvent(event) == event = None \/ event = ""

readEventsExit ==
  /\ mpc = "m_got"
  /\ notEvent(evResult)
  /\ mpc' = "st_set"
  /\ stopRet' = "readEvents"
  /\ UNCHANGED <<mJoin, evResult, stopsDone, deleted, subVars, sigVars, queue, slideVars,
                 histVars>>
  /\ UNCHANGED otherVars

handleEventFrom(found) ==
  /\ mpc = "m_got"
  /\ ~notEvent(evResult)
  /\ \E stateChanged \in BOOLEAN, mediaPaths \in found :
       IF stateChanged
         THEN \* queue the media found for the event
              setMedia(mediaPaths)
         ELSE \* nothing is queued
              /\ mediaPaths = CHOOSE m \in found : TRUE
              /\ UNCHANGED <<queue, histVars>>
  /\ mpc' = "ge_check"
  /\ UNCHANGED <<stopRet, mJoin, evResult, stopsDone, deleted, subVars, sigVars, slideVars>>
  /\ UNCHANGED otherVars

handleEvent == handleEventFrom(MediaInputs)

(***************************************************************************)
(* EventHandler.readEvents and _handleEvent on the event parameters: the   *)
(* snapshot getEventParams reads, the arcade conversion, the state-change  *)
(* filter, the state update and the media query.                           *)
(***************************************************************************)
\* the snapshots EmulationStation leaves for getEventParams to read
Snapshots ==
  [Action : Actions, SystemId : {"snes", "mame"}, GamePath : {"g.zip"}]
    \cup {NoParams, [Action |-> "systembrowsing", SystemId |-> "snes", GamePath |-> ""]}

\* params = self._mqttSubscriber.getEventParams()
readEventsParams ==
  /\ mpc = "m_got"
  /\ ~notEvent(evResult)
  /\ hParams' \in Snapshots
  /\ mpc' = "m_params"
  /\ UNCHANGED <<stopRet, mJoin, evResult, stopsDone, deleted, subVars, sigVars, queue,
                 slideVars, histVars>>
  /\ UNCHANGED <<currentState, previousEvParams, stateBeforeSleep, changeRules,
                 arcadeEnabled, arcadeSystems, recent, hChanged, hQuery, fnVars>>

\* params = self._mqttSubscriber.getEventParams(), the state source read
\* being one of sources; an exception leaves readEvents
readEventsFrom(sources) ==
  /\ mpc = "m_got"
  /\ ~notEvent(evResult)
  /\ \E src \in sources : \E outcome \in {getEventParams(src)} :
       /\ fnArg' = src
       /\ fnRes' = <<outcome>>
       /\ mpc' = IF outcome.raised # "" THEN "m_except" ELSE "m_params"
       /\ hParams' = IF outcome.raised # "" THEN hParams ELSE paramsRead(outcome.params)
  /\ UNCHANGED <<stopRet, mJoin, evResult, stopsDone, deleted, subVars, sigVars, queue,
                 slideVars, histVars>>
  /\ UNCHANGED <<currentState, previousEvParams, stateBeforeSleep, changeRules,
                 arcadeEnabled, arcadeSystems, recent, hChanged, hQuery>>

\* __main__: except Exception as e: log.critical(...); sys.exit(1)
mainExcept ==
  /\ mpc = "m_except"
  /\ mpc' = "m_shutdown"
  /\ UNCHANGED <<stopRet, mJoin, evResult, stopsDone, deleted, subVars, sigVars, queue,
                 slideVars, histVars>>
  /\ UNCHANGED otherVars

\* a thread made without daemon= that is no daemon whoever makes it
inheritedDaemonNever(creatorDaemon) == FALSE

\* Thread(...) without daemon=: the thread is a daemon if the thread that
\* makes it is one
inheritedDaemon(creatorDaemon) == creatorDaemon

\* the slideshow worker is made by the queue reader, a thread made with
\* daemon=True
workerDaemon == inheritedDaemon(TRUE)

\* the interpreter's exit after sys.exit(1): it joins the threads that are
\* no daemons, and then the process ends with status 1 and its daemon
\* threads with it; the external commands stay
threadingShutdown ==
  /\ mpc = "m_shutdown"
  /\ \A w \in Workers : thr[w] = "alive" => workerDaemon
  /\ mpc' = "m_exit1"
  /\ thr' = [w \in Workers |-> IF thr[w] = "alive" THEN "killed" ELSE thr[w]]
  /\ qpc' = "q_killed"
  /\ vpc' = [v \in VideoThreads |-> IF vpc[v] = "free" THEN "free" ELSE "v_killed"]
  /\ UNCHANGED <<stopRet, mJoin, evResult, stopsDone, deleted, subVars, sigVars, queue,
                 currentMedia, mediaChange, videoFinish, slideshowThread, qMedia,
                 wVars, vH, videoThread, procVars, cfgVars, histVars>>
  /\ UNCHANGED otherVars

\* an update that handles wakeup like any other action
updateStateNoRestore(evParams, current, previous, beforeSleep) ==
  [currentState |-> fromEvent(evParams),
   previousEvParams |-> IF evParams.Action \notin {"sleep", "wakeup"} THEN evParams
                        ELSE previous,
   stateBeforeSleep |-> IF evParams.Action = "sleep" THEN current ELSE beforeSleep,
   evParams |-> evParams]

\* an update that records the state before sleep after the overwrite
updateStateSleepAfter(evParams, current, previous, beforeSleep) ==
  LET action == evParams.Action
      current1 == fromEvent(evParams)
      beforeSleep1 == IF action = "sleep" THEN current1 ELSE beforeSleep
      previous1 == IF action \notin {"sleep", "wakeup"} THEN evParams ELSE previous
  IN  IF action = "wakeup"
        THEN [currentState |-> beforeSleep1, previousEvParams |-> previous1,
              stateBeforeSleep |-> beforeSleep1, evParams |-> previous1]
        ELSE [currentState |-> current1, previousEvParams |-> previous1,
              stateBeforeSleep |-> beforeSleep1, evParams |-> evParams]

\* EventHandler._updateState: the three fields after the call and the params
\* it returns
updateState(evParams, current, previous, beforeSleep) ==
  LET action == evParams.Action
      beforeSleep1 == IF action = "sleep" THEN current ELSE beforeSleep
      previous1 == IF action \notin {"sleep", "wakeup"} THEN evParams ELSE previous
  IN  IF action = "wakeup"
        THEN [currentState |-> beforeSleep1, previousEvParams |-> previous1,
              stateBeforeSleep |-> beforeSleep1, evParams |-> previous1]
        ELSE [currentState |-> fromEvent(evParams), previousEvParams |-> previous1,
              stateBeforeSleep |-> beforeSleep1, evParams |-> evParams]

\* a handler that queues media for every event
queuesMediaAlways(stateChanged) == TRUE

\* if stateChanged: getMedia, setMedia
queuesMedia(stateChanged) == stateChanged

handleEventParams ==
  /\ mpc = "m_params"
  /\ LET evParams == IF arcadeEnabled
                       THEN convertArcadeSystems(hParams, arcadeEnabled, arcadeSystems)
                       ELSE hParams
         stateChanged == hasStateChanged(evParams, changeRules, currentState)
         upd == updateState(evParams, currentState, previousEvParams, stateBeforeSleep)
     IN  /\ currentState' = upd.currentState
         /\ previousEvParams' = upd.previousEvParams
         /\ stateBeforeSleep' = upd.stateBeforeSleep
         /\ hChanged' = stateChanged
         /\ recent' = IF Len(recent) < 3 THEN Append(recent, evParams)
                      ELSE Append(Tail(recent), evParams)
         /\ IF queuesMedia(stateChanged)
              THEN /\ setMedia(getMedia(upd.evParams))
                   /\ hQuery' = <<upd.evParams>>
              ELSE /\ UNCHANGED <<queue, histVars>>
                   /\ hQuery' = NoQuery
  /\ mpc' = "ge_check"
  /\ UNCHANGED <<stopRet, mJoin, evResult, stopsDone, deleted, subVars, sigVars, slideVars>>
  /\ UNCHANGED <<changeRules, arcadeEnabled, arcadeSystems, hParams, fnVars>>

(***************************************************************************)
(* MQTTSubscriber._onMessage, on the network thread: queue the message.    *)
(***************************************************************************)
onMessageOf(payloads, max) ==
  /\ subscribed
  /\ nPublished < max
  /\ \E payload \in payloads :
       msgQueue' = Append(msgQueue, [id |-> nPublished + 1, payload |-> payload])
  /\ nPublished' = nPublished + 1
  /\ UNCHANGED <<mainVars, subscribed, delivered, sigVars, queue, slideVars, histVars>>
  /\ UNCHANGED otherVars

onMessage == onMessageOf(Payloads, MaxEvents)

(***************************************************************************)
(* MQTTSubscriber._onDisconnect, on the network thread when the connection *)
(* to the broker is lost: log, self._client.loop_stop().  The network      *)
(* thread ends, and with it the reconnection the client library does from  *)
(* that thread: the client stays disconnected.                             *)
(***************************************************************************)
onDisconnect ==
  /\ subscribed
  /\ subscribed' = FALSE
  /\ UNCHANGED <<mainVars, msgQueue, nPublished, delivered, sigVars, queue, slideVars,
                 histVars>>
  /\ UNCHANGED otherVars

\* the broker, reachable again, publishes a message on the topic while the
\* client has been started and is not connected: no _onMessage call is made
publishUnheard(max) ==
  /\ ~subscribed /\ mpc # "m_start"
  /\ nPublished < max
  /\ nPublished' = nPublished + 1
  /\ UNCHANGED <<mainVars, subscribed, msgQueue, delivered, sigVars, queue, slideVars,
                 histVars>>
  /\ UNCHANGED otherVars

(***************************************************************************)
(* SignalHandler._sigReceived: on SIGTERM the handler runs on the main     *)
(* thread, between two of its steps, and sets every registered event.      *)
(***************************************************************************)
\* a handler that sets every event, registered or not
sigReceivedAll(events, f) == [e \in ExitEvents |-> TRUE]

\* for event in self._events: event.set()
sigReceived(events, f) == [e \in ExitEvents |-> f[e] \/ e \in Range(events)]

SIGTERM ==
  /\ nSignals < MaxSignals
  /\ nSignals' = nSignals + 1
  /\ flag' = sigReceived(sigEvents, flag)
  /\ UNCHANGED <<mainVars, subVars, sigEvents, queue, slideVars, histVars>>
  /\ UNCHANGED otherVars

(***************************************************************************)
(* Slideshow.stop, statement by statement.                                 *)
(***************************************************************************)
stopVarsRest == <<currentMedia, videoFinish, slideshowThread, thr, qVars, wVars, vVars,
                  procVars, cfgVars>>

\* self._mediaChange.set(): the is_set() test ...
stopSetTest ==
  /\ mpc = "st_set"
  /\ mpc' = IF is_set(mediaChange) THEN "st_alive" ELSE "st_setWr"
  /\ UNCHANGED <<stopRet, mJoin, evResult, stopsDone, deleted, subVars, sigVars, queue,
                 slideVars, histVars>>
  /\ UNCHANGED otherVars

\* ... and the os.write of one byte
stopSetWrite ==
  /\ mpc = "st_setWr"
  /\ mediaChange' = mediaChange + 1
  /\ mpc' = "st_alive"
  /\ UNCHANGED <<stopRet, mJoin, evResult, stopsDone, deleted, subVars, sigVars, queue,
                 stopVarsRest, histVars>>
  /\ UNCHANGED otherVars

\* (self._slideshowThread is not None) and self._slideshowThread.is_alive()
stopAliveTest ==
  /\ mpc = "st_alive"
  /\ mpc' = IF slideshowThread # 0 /\ thr[slideshowThread] = "alive"
              THEN "st_join" ELSE "st_exit"
  /\ UNCHANGED <<stopRet, mJoin, evResult, stopsDone, deleted, subVars, sigVars, queue,
                 slideVars, histVars>>
  /\ UNCHANGED otherVars

\* self._slideshowThread.join(): the attribute is read again; joining a thread
\* object that has not been started raises RuntimeError
stopJoinCall ==
  /\ mpc = "st_join"
  /\ IF thr[slideshowThread] = "created"
       THEN /\ mpc' = "m_crash"
            /\ UNCHANGED mJoin
       ELSE /\ mpc' = "st_joinWait"
            /\ mJoin' = slideshowThread
  /\ UNCHANGED <<stopRet, evResult, stopsDone, deleted, subVars, sigVars, queue,
                 slideVars, histVars>>
  /\ UNCHANGED otherVars

\* Thread.join returns once the thread has terminated
joined(t) == thr[t] = "dead"

stopJoinWait ==
  /\ mpc = "st_joinWait"
  /\ joined(mJoin)
  /\ mJoin' = 0
  /\ mpc' = "st_exit"
  /\ UNCHANGED <<stopRet, evResult, stopsDone, deleted, subVars, sigVars, queue,
                 slideVars, histVars>>
  /\ UNCHANGED otherVars

\* self._exitSignalled.set()
stopExitSet ==
  /\ mpc = "st_exit"
  /\ flag' = [flag EXCEPT ![SlideshowExit] = TRUE]
  /\ mpc' = "st_put"
  /\ UNCHANGED <<stopRet, mJoin, evResult, stopsDone, deleted, subVars, sigEvents,
                 nSignals, queue, slideVars, histVars>>
  /\ UNCHANGED otherVars

\* self.setMedia([])
stopPut ==
  /\ mpc = "st_put"
  /\ setMedia(<<>>)
  /\ mpc' = "st_qjoin"
  /\ UNCHANGED <<stopRet, mJoin, evResult, stopsDone, deleted, subVars, sigVars, slideVars>>
  /\ UNCHANGED otherVars

\* self._queueReaderThread.join(), then stop() returns to its caller
stopQueueJoin ==
  /\ mpc = "st_qjoin"
  /\ qpc = "q_done"
  /\ stopsDone' = stopsDone + 1
  /\ mpc' = IF stopRet = "readEvents" THEN "m_exit" ELSE "d_remove"
  /\ UNCHANGED <<stopRet, mJoin, evResult, deleted, subVars, sigVars, queue, slideVars,
                 histVars>>
  /\ UNCHANGED otherVars

(***************************************************************************)
(* After readEvents has returned the objects are destroyed, in either      *)
(* order: Slideshow.__del__ calls stop() again and deregisters its exit    *)
(* event; MQTTSubscriber.__del__ deregisters its exit event.               *)
(***************************************************************************)
\* list.remove(event): the first occurrence is removed
removeEvent(events, event) ==
  LET i == CHOOSE k \in 1..Len(events) :
             events[k] = event /\ \A j \in 1..(k - 1) : events[j] # event
  IN  SubSeq(events, 1, i - 1) \o SubSeq(events, i + 1, Len(events))

SlideshowDel ==
  /\ mpc = "m_exit"
  /\ "Slideshow" \notin deleted
  /\ stopRet' = "__del__"
  /\ mpc' = "st_set"
  /\ UNCHANGED <<mJoin, evResult, stopsDone, deleted, subVars, sigVars, queue, slideVars,
                 histVars>>
  /\ UNCHANGED otherVars

SlideshowDelRemove ==
  /\ mpc = "d_remove"
  /\ sigEvents' = removeEvent(sigEvents, SlideshowExit)
  /\ deleted' = deleted \cup {"Slideshow"}
  /\ mpc' = "m_exit"
  /\ UNCHANGED <<stopRet, mJoin, evResult, stopsDone, subVars, flag, nSignals,
                 queue, slideVars, histVars>>
  /\ UNCHANGED otherVars

SubscriberDel ==
  /\ mpc = "m_exit"
  /\ "MQTTSubscriber" \notin deleted
  /\ sigEvents' = removeEvent(sigEvents, SubscriberExit)
  /\ deleted' = deleted \cup {"MQTTSubscriber"}
  /\ UNCHANGED <<mpc, stopRet, mJoin, evResult, stopsDone, subVars, flag, nSignals,
                 queue, slideVars, histVars>>
  /\ UNCHANGED otherVars

(***************************************************************************)
(* Slideshow._readMediaQueue, the queue reader thread.                     *)
(***************************************************************************)
qRest == <<mainVars, subVars, sigVars, videoFinish, wVars, vVars, procVars, cfgVars>>

\* while not self._exitSignalled.is_set()
queueLoopTest ==
  /\ qpc = "q_loop"
  /\ qpc' = IF flag[SlideshowExit] THEN "q_done" ELSE "q_get"
  /\ UNCHANGED <<qRest, queue, currentMedia, mediaChange, slideshowThread, thr, qMedia,
                 histVars>>
  /\ UNCHANGED otherVars

\* mediaPaths = self._queue.get(block=True)
queueGet ==
  /\ qpc = "q_get"
  /\ queue # <<>>
  /\ qMedia' = Head(queue)
  /\ queue' = Tail(queue)
  /\ qpc' = "q_chk"
  /\ UNCHANGED <<qRest, currentMedia, mediaChange, slideshowThread, thr, histVars>>
  /\ UNCHANGED otherVars

\* a comparison that never sees a change
mediaChangedNever(mediaPaths, current) == FALSE

\* a comparison that sees a change in every set
mediaChangedAlways(mediaPaths, current) == TRUE

\* mediaChanged = mediaPaths != self._currentMedia
mediaChanged(mediaPaths, current) == mediaPaths # current

\* the exit test after the get, then the comparison with the current set
queueCheck ==
  /\ qpc = "q_chk"
  /\ IF flag[SlideshowExit]
       THEN qpc' = "q_done" /\ qMedia' = <<>>
       ELSE IF mediaChanged(qMedia, currentMedia)
              THEN qpc' = "q_set" /\ UNCHANGED qMedia
              ELSE qpc' = "q_loop" /\ qMedia' = <<>>
  /\ UNCHANGED <<qRest, queue, currentMedia, mediaChange, slideshowThread, thr, histVars>>
  /\ UNCHANGED otherVars

\* self._mediaChange.set(): the is_set() test ...
queueSetTest ==
  /\ qpc = "q_set"
  /\ qpc' = IF is_set(mediaChange) THEN "q_join" ELSE "q_setWr"
  /\ UNCHANGED <<qRest, queue, currentMedia, mediaChange, slideshowThread, thr, qMedia,
                 histVars>>
  /\ UNCHANGED otherVars

\* ... and the os.write of one byte
queueSetWrite ==
  /\ qpc = "q_setWr"
  /\ mediaChange' = mediaChange + 1
  /\ qpc' = "q_join"
  /\ UNCHANGED <<qRest, queue, currentMedia, slideshowThread, thr, qMedia, histVars>>
  /\ UNCHANGED otherVars

\* a queue reader that does not wait for the worker
workerGoneUnjoined(t) == TRUE

\* the wait for the current slideshow thread: none, or join() has returned
workerGone(t) == IF t = 0 THEN TRUE ELSE joined(t)

\* if self._slideshowThread is not None: join(); self._currentMedia = mediaPaths
queueJoin ==
  /\ qpc = "q_join"
  /\ workerGone(slideshowThread)
  /\ currentMedia' = qMedia
  /\ qpc' = "q_clear"
  /\ UNCHANGED <<qRest, queue, mediaChange, slideshowThread, thr, qMedia, histVars>>
  /\ UNCHANGED otherVars

\* WaitableEvent.clear: read one byte if the event is set
clear(pipe) == IF is_set(pipe) THEN pipe - 1 ELSE pipe

\* self._mediaChange.clear(); if mediaPaths: ...
queueClear ==
  /\ qpc = "q_clear"
  /\ mediaChange' = clear(mediaChange)
  /\ IF qMedia # <<>>
       THEN qpc' = "q_new" /\ UNCHANGED qMedia
       ELSE qpc' = "q_loop" /\ qMedia' = <<>>
  /\ UNCHANGED <<qRest, queue, currentMedia, slideshowThread, thr, histVars>>
  /\ UNCHANGED otherVars

\* the next thread object not yet used
newThread == CHOOSE w \in Workers : thr[w] = "unborn" /\ \A u \in 1..(w - 1) : thr[u] # "unborn"

\* self._slideshowThread = Thread(target=self._runSlideshow)
queueNewThread ==
  /\ qpc = "q_new"
  /\ \E w \in Workers : thr[w] = "unborn"
  /\ slideshowThread' = newThread
  /\ thr' = [thr EXCEPT ![newThread] = "created"]
  /\ qpc' = "q_start"
  /\ qMedia' = <<>>
  /\ UNCHANGED <<qRest, queue, currentMedia, mediaChange, histVars>>
  /\ UNCHANGED otherVars

\* self._slideshowThread.start()
queueStartThread ==
  /\ qpc = "q_start"
  /\ thr' = [thr EXCEPT ![slideshowThread] = "alive"]
  /\ wpc' = [wpc EXCEPT ![slideshowThread] = "w_loop"]
  /\ qpc' = "q_loop"
  /\ UNCHANGED <<mainVars, subVars, sigVars, videoFinish, wOrder, wIdx, wH, vVars, procVars,
                 cfgVars, queue, currentMedia, mediaChange, slideshowThread, qMedia, histVars>>
  /\ UNCHANGED otherVars

(***************************************************************************)
(* External commands.  A process is running, or has exited and waits to be *)
(* reaped (zombie); a Popen object is a slot of the table, or Reaped once  *)
(* wait()/poll() has collected the exit status.                            *)
(***************************************************************************)
Running(h) == h \in ProcSlots /\ procs[h].st = "run"

\* the slot a new process gets
freeSlot == CHOOSE s \in ProcSlots : procs[s].st = "free" /\
                                     \A u \in 1..(s - 1) : procs[u].st # "free"

\* subprocess.Popen succeeds while the process table has room, and raises
\* OSError when it is full
canLaunch == \E s \in ProcSlots : procs[s].st = "free"

\* a zombie no Popen object refers to is collected by the Python runtime
Collect(p, refs) ==
  [s \in ProcSlots |-> IF p[s].st = "zombie" /\ s \notin refs THEN FreeProc ELSE p[s]]

Refs(sub, wh, vh) == {sub} \cup Range(wh) \cup Range(vh)

\* the process table after a successful Popen whose object replaces _subProcess
Launched(kind) ==
  Collect([procs EXCEPT ![freeSlot] = [kind |-> kind, st |-> "run"]],
          Refs(freeSlot, wH, vH))

\* a handle after the process of handle h has been reaped
ReapIn(x, h) == IF x = h /\ h \in ProcSlots THEN Reaped ELSE x

\* the process table after wait()/poll() on handle h found it exited
ReapedTable(h) == IF h \in ProcSlots THEN [procs EXCEPT ![h] = FreeProc] ELSE procs

\* an external command ends by itself
procExit(s) ==
  /\ procs[s].st = "run"
  /\ procs' = Collect([procs EXCEPT ![s].st = "zombie"], Refs(subProcess, wH, vH))
  /\ UNCHANGED <<mainVars, subVars, sigVars, queue, currentMedia, mediaChange, videoFinish,
                 slideshowThread, thr, qVars, wVars, vVars, subProcess, cfgVars, histVars>>
  /\ UNCHANGED otherVars

(***************************************************************************)
(* Slideshow._runSlideshow, the slideshow worker thread w.                 *)
(***************************************************************************)
wFrame == <<mainVars, subVars, sigVars, queue, currentMedia, mediaChange, slideshowThread,
            qVars, cfgVars, lastEnq, launchFailed>>

\* Slideshow._getMediaPaths: a shuffled or a stem-sorted copy of _currentMedia
getMediaPaths ==
  IF shuffle THEN Perms(currentMedia) ELSE {SortSet(Range(currentMedia), StemRank)}

\* while not self._mediaChange.is_set(): mediaPaths = self._getMediaPaths()
workerLoopTest(w) ==
  /\ thr[w] = "alive" /\ wpc[w] = "w_loop"
  /\ IF is_set(mediaChange)
       THEN \* the thread ends
            /\ thr' = [thr EXCEPT ![w] = "dead"]
            /\ wpc' = [wpc EXCEPT ![w] = "none"]
            /\ wOrder' = [wOrder EXCEPT ![w] = <<>>]
            /\ wIdx' = [wIdx EXCEPT ![w] = 0]
            /\ wStale' = wStale \ {w}
       ELSE /\ \E mediaPaths \in getMediaPaths :
                 /\ wOrder' = [wOrder EXCEPT ![w] = mediaPaths]
                 /\ IF mediaPaths = <<>>
                      THEN wpc' = wpc /\ wIdx' = [wIdx EXCEPT ![w] = 0]
                      ELSE /\ wpc' = [wpc EXCEPT ![w] = "w_item"]
                           /\ wIdx' = [wIdx EXCEPT ![w] = 1]
            /\ UNCHANGED <<thr, wStale>>
  /\ UNCHANGED <<wFrame, videoFinish, wH, vVars, procVars>>
  /\ UNCHANGED otherVars

\* the video thread object a new Thread(target=self._startVideo) gets
freeVideo == CHOOSE v \in VideoThreads : vpc[v] = "free" /\
                                         \A u \in 1..(v - 1) : vpc[u] # "free"

\* a video item: self._videoThread = Thread(...); self._videoThread.start()
workerStartVideo(w) ==
  /\ thr[w] = "alive" /\ wpc[w] = "w_item"
  /\ isVideo(wOrder[w][wIdx[w]])
  /\ \E v \in VideoThreads : vpc[v] = "free"
  /\ vpc' = [vpc EXCEPT ![freeVideo] = "v_clear"]
  /\ videoThread' = freeVideo
  /\ wpc' = [wpc EXCEPT ![w] = "w_select"]
  /\ UNCHANGED <<wFrame, videoFinish, thr, wOrder, wIdx, wH, vH, procVars, wStale>>
  /\ UNCHANGED otherVars

\* self._selector.select(timeout=self._maxVideoTime) returns: _mediaChange or
\* _videoFinish is readable, or the timeout has expired
workerSelect(w) ==
  /\ thr[w] = "alive" /\ wpc[w] = "w_select"
  /\ wpc' = [wpc EXCEPT ![w] = "w_stop"]
  /\ UNCHANGED <<wFrame, videoFinish, thr, wOrder, wIdx, wH, vVars, procVars, wStale>>
  /\ UNCHANGED otherVars

\* an image item: self._showImage(mediaFile), i.e. _runCmd(viewer command)
workerShowImage(w) ==
  /\ thr[w] = "alive" /\ wpc[w] = "w_item"
  /\ ~isVideo(wOrder[w][wIdx[w]])
  /\ IF canLaunch
       THEN /\ subProcess' = freeSlot
            /\ procs' = Launched("viewer")
            /\ UNCHANGED launchFailed
       ELSE \* Popen raises OSError: logged, _runCmd returns False
            /\ UNCHANGED procVars
            /\ launchFailed' = launchFailed \cup {w}
  /\ wpc' = [wpc EXCEPT ![w] = "w_imgWait"]
  /\ UNCHANGED <<mainVars, subVars, sigVars, queue, currentMedia, mediaChange,
                 slideshowThread, qVars, cfgVars, lastEnq>>
  /\ UNCHANGED <<videoFinish, thr, wOrder, wIdx, wH, vVars, wStale>>
  /\ UNCHANGED otherVars

\* a worker that waits with a timeout on every image
singleImageNever(mediaPaths) == FALSE

\* the set is a single image: wait for _mediaChange without a timeout
singleImage(mediaPaths) == Len(mediaPaths) = 1 /\ ~isVideo(mediaPaths[1])

\* self._mediaChange.wait() or self._mediaChange.wait(timeout=_imgDisplayTime)
workerImageWait(w) ==
  /\ thr[w] = "alive" /\ wpc[w] = "w_imgWait"
  /\ singleImage(wOrder[w]) => is_set(mediaChange)
  /\ wpc' = [wpc EXCEPT ![w] = IF terminateViewer THEN "w_stop" ELSE "w_clr"]
  /\ UNCHANGED <<wFrame, videoFinish, thr, wOrder, wIdx, wH, vVars, procVars, wStale>>
  /\ UNCHANGED otherVars

\* Slideshow._stopSubProcess: terminate(), then wait(self._subProcessTimeout)
workerStop(w) ==
  /\ thr[w] = "alive" /\ wpc[w] = "w_stop"
  /\ IF Running(subProcess)
       THEN \/ \* the process ends within the timeout and is reaped by wait()
               /\ procs' = ReapedTable(subProcess)
               /\ subProcess' = Reaped
               /\ wH' = [u \in Workers |-> ReapIn(wH[u], subProcess)]
               /\ vH' = [v \in VideoThreads |-> ReapIn(vH[v], subProcess)]
               /\ wpc' = [wpc EXCEPT ![w] = "w_clr"]
            \/ \* subprocess.TimeoutExpired
               /\ wpc' = [wpc EXCEPT ![w] = "w_kill"]
               /\ UNCHANGED <<procVars, wH, vH>>
       ELSE \* None, or a process that has exited: terminate() polls and reaps it
            /\ procs' = ReapedTable(subProcess)
            /\ subProcess' = ReapIn(subProcess, subProcess)
            /\ wH' = [u \in Workers |-> ReapIn(wH[u], subProcess)]
            /\ vH' = [v \in VideoThreads |-> ReapIn(vH[v], subProcess)]
            /\ wpc' = [wpc EXCEPT ![w] = "w_clr"]
  /\ UNCHANGED <<wFrame, videoFinish, thr, wOrder, wIdx, vpc, videoThread, wStale>>
  /\ UNCHANGED otherVars

\* the process table after Popen.kill() on handle h: SIGKILL ends a running
\* process, which is not waited for; an exited one is reaped by the poll
Killed(h) ==
  IF Running(h) THEN [procs EXCEPT ![h].st = "zombie"] ELSE ReapedTable(h)

\* ... except subprocess.TimeoutExpired: self._subProcess.kill()
workerKill(w) ==
  /\ thr[w] = "alive" /\ wpc[w] = "w_kill"
  /\ procs' = Killed(subProcess)
  /\ IF Running(subProcess)
       THEN UNCHANGED <<subProcess, wH, vH>>
       ELSE /\ subProcess' = ReapIn(subProcess, subProcess)
            /\ wH' = [u \in Workers |-> ReapIn(wH[u], subProcess)]
            /\ vH' = [v \in VideoThreads |-> ReapIn(vH[v], subProcess)]
  /\ wpc' = [wpc EXCEPT ![w] = "w_clr"]
  /\ UNCHANGED <<wFrame, videoFinish, thr, wOrder, wIdx, vpc, videoThread, wStale>>
  /\ UNCHANGED otherVars

\* Slideshow._clearImage: _runCmd(clear command, waitForExit=True), the Popen
workerClearRun(w) ==
  /\ thr[w] = "alive" /\ wpc[w] = "w_clr"
  /\ IF canLaunch
       THEN /\ subProcess' = freeSlot
            /\ procs' = Launched("clear")
            /\ wpc' = [wpc EXCEPT ![w] = "w_clrRd"]
       ELSE \* Popen raises OSError: logged, _runCmd returns False
            /\ UNCHANGED procVars
            /\ wpc' = [wpc EXCEPT ![w] = "w_chk"]
  /\ UNCHANGED <<wFrame, videoFinish, thr, wOrder, wIdx, wH, vVars, wStale>>
  /\ UNCHANGED otherVars

\* rc = self._subProcess.wait(): the attribute is read again
workerClearRead(w) ==
  /\ thr[w] = "alive" /\ wpc[w] = "w_clrRd"
  /\ wH' = [wH EXCEPT ![w] = subProcess]
  /\ wpc' = [wpc EXCEPT ![w] = "w_clrWait"]
  /\ UNCHANGED <<wFrame, videoFinish, thr, wOrder, wIdx, vVars, procVars, wStale>>
  /\ UNCHANGED otherVars

\* ... and wait() returns when that process has exited
workerClearWait(w) ==
  /\ thr[w] = "alive" /\ wpc[w] = "w_clrWait"
  /\ ~Running(wH[w])
  /\ procs' = ReapedTable(wH[w])
  /\ subProcess' = ReapIn(subProcess, wH[w])
  /\ wH' = [u \in Workers |-> IF u = w THEN NoProc ELSE ReapIn(wH[u], wH[w])]
  /\ vH' = [v \in VideoThreads |-> ReapIn(vH[v], wH[w])]
  /\ wpc' = [wpc EXCEPT ![w] = "w_chk"]
  /\ UNCHANGED <<wFrame, videoFinish, thr, wOrder, wIdx, vpc, videoThread, wStale>>
  /\ UNCHANGED otherVars

\* if self._mediaChange.is_set(): break; else the pause between slides
\* (a wait on _mediaChange with a timeout) and the next item of the for loop
workerNext(w) ==
  /\ thr[w] = "alive" /\ wpc[w] = "w_chk"
  /\ IF is_set(mediaChange) \/ wIdx[w] = Len(wOrder[w])
       THEN /\ wpc' = [wpc EXCEPT ![w] = "w_loop"]
            /\ wIdx' = [wIdx EXCEPT ![w] = 0]
            /\ wOrder' = [wOrder EXCEPT ![w] = <<>>]
       ELSE /\ wpc' = [wpc EXCEPT ![w] = "w_item"]
            /\ wIdx' = [wIdx EXCEPT ![w] = wIdx[w] + 1]
            /\ UNCHANGED wOrder
  /\ launchFailed' = launchFailed \ {w}
  /\ UNCHANGED <<mainVars, subVars, sigVars, queue, currentMedia, mediaChange,
                 slideshowThread, qVars, cfgVars, lastEnq>>
  /\ UNCHANGED <<videoFinish, thr, wH, vVars, procVars, wStale>>
  /\ UNCHANGED otherVars

(***************************************************************************)
(* Slideshow._startVideo, the video thread v.                              *)
(***************************************************************************)
vEnd(v) ==
  /\ vpc' = [vpc EXCEPT ![v] = "free"]

\* self._videoFinish.clear()
videoClear(v) ==
  /\ vpc[v] = "v_clear"
  /\ videoFinish' = clear(videoFinish)
  /\ vpc' = [vpc EXCEPT ![v] = "v_run"]
  /\ UNCHANGED <<wFrame, thr, wVars, vH, videoThread, procVars, wStale>>
  /\ UNCHANGED otherVars

\* self._runCmd(video player command, waitForExit=True), the Popen
videoRun(v) ==
  /\ vpc[v] = "v_run"
  /\ IF canLaunch
       THEN /\ subProcess' = freeSlot
            /\ procs' = Launched("video")
            /\ vpc' = [vpc EXCEPT ![v] = "v_rd"]
            /\ UNCHANGED launchFailed
       ELSE \* Popen raises OSError: logged, _runCmd returns False
            /\ UNCHANGED procVars
            /\ vpc' = [vpc EXCEPT ![v] = "v_set"]
            /\ launchFailed' = launchFailed \cup
                                 {w \in Workers : thr[w] = "alive" /\ wpc[w] = "w_select"}
  /\ UNCHANGED <<mainVars, subVars, sigVars, queue, currentMedia, mediaChange,
                 slideshowThread, qVars, cfgVars, lastEnq>>
  /\ UNCHANGED <<videoFinish, thr, wVars, vH, videoThread, wStale>>
  /\ UNCHANGED otherVars

\* rc = self._subProcess.wait(): the attribute is read again
videoWaitRead(v) ==
  /\ vpc[v] = "v_rd"
  /\ vH' = [vH EXCEPT ![v] = subProcess]
  /\ vpc' = [vpc EXCEPT ![v] = "v_wait"]
  /\ UNCHANGED <<wFrame, videoFinish, thr, wVars, videoThread, procVars, wStale>>
  /\ UNCHANGED otherVars

\* ... and wait() returns when that process has exited
videoWait(v) ==
  /\ vpc[v] = "v_wait"
  /\ ~Running(vH[v])
  /\ procs' = ReapedTable(vH[v])
  /\ subProcess' = ReapIn(subProcess, vH[v])
  /\ vH' = [u \in VideoThreads |-> IF u = v THEN NoProc ELSE ReapIn(vH[u], vH[v])]
  /\ wH' = [w \in Workers |-> ReapIn(wH[w], vH[v])]
  /\ vpc' = [vpc EXCEPT ![v] = "v_set"]
  /\ UNCHANGED <<wFrame, videoFinish, thr, wpc, wOrder, wIdx, videoThread, wStale>>
  /\ UNCHANGED otherVars

\* WaitableEvent.set: write one byte unless the event is set
set(pipe) == IF is_set(pipe) THEN pipe ELSE pipe + 1

\* self._videoFinish.set(); the thread ends
videoSet(v) ==
  /\ vpc[v] = "v_set"
  /\ videoFinish' = set(videoFinish)
  /\ vEnd(v)
  /\ UNCHANGED <<wFrame, thr, wVars, vH, videoThread, procVars, wStale>>
  /\ UNCHANGED otherVars

(***************************************************************************)
(* The threads and the specification.                                      *)
(***************************************************************************)
MainThread ==
  \/ SubscriberStart \/ startup \/ getEventCheck \/ getEventGet
  \/ readEventsExit \/ handleEvent
  \/ stopSetTest \/ stopSetWrite \/ stopAliveTest \/ stopJoinCall \/ stopJoinWait
  \/ stopExitSet \/ stopPut \/ stopQueueJoin
  \/ SlideshowDel \/ SlideshowDelRemove \/ SubscriberDel

QueueReader ==
  \/ queueLoopTest \/ queueGet \/ queueCheck \/ queueSetTest \/ queueSetWrite
  \/ queueJoin \/ queueClear \/ queueNewThread \/ queueStartThread

Worker(w) ==
  \/ workerLoopTest(w) \/ workerStartVideo(w) \/ workerSelect(w) \/ workerShowImage(w)
  \/ workerImageWait(w) \/ workerStop(w) \/ workerKill(w)
  \/ workerClearRun(w) \/ workerClearRead(w) \/ workerClearWait(w) \/ workerNext(w)

VideoThread(v) ==
  \/ videoClear(v) \/ videoRun(v) \/ videoWaitRead(v) \/ videoWait(v) \/ videoSet(v)

Environment ==
  \/ onMessage
  \/ SIGTERM
  \/ \E s \in ProcSlots : procExit(s)

Next ==
  \/ MainThread
  \/ QueueReader
  \/ \E w \in Workers : Worker(w)
  \/ \E v \in VideoThreads : VideoThread(v)
  \/ Environment

Spec == Init /\ [][Next]_vars

(***************************************************************************)
(* The subscriber and the signal handler alone: no startup media, and      *)
(* every search rule blank, so that the engine never displays anything.    *)
(* The main thread always runs, and a queue get ends by a message or by    *)
(* its timeout.                                                            *)
(***************************************************************************)
SubscriberNext ==
  \/ SubscriberStart \/ startupFrom({<<>>}) \/ getEventCheck \/ getEventGet
  \/ readEventsExit \/ handleEventFrom({<<>>})
  \/ stopSetTest \/ stopSetWrite \/ stopAliveTest \/ stopExitSet \/ stopPut \/ stopQueueJoin
  \/ SlideshowDel \/ SlideshowDelRemove \/ SubscriberDel
  \/ queueLoopTest \/ queueGet \/ queueCheck
  \/ onMessageOf(Payloads, MaxMessages)
  \/ SIGTERM

SubscriberSpec ==
  Init /\ [][SubscriberNext]_vars /\ WF_vars(getEventCheck) /\ WF_vars(getEventGet)

(***************************************************************************)
(* The subscriber with a broker whose connection can be lost: no signal,   *)
(* events that are never empty, no media.  The main thread always runs.    *)
(***************************************************************************)
BrokerMain ==
  \/ SubscriberStart \/ startupFrom({<<>>}) \/ getEventCheck \/ getEventGet
  \/ handleEventFrom({<<>>})

BrokerNext ==
  \/ BrokerMain
  \/ queueLoopTest \/ queueGet \/ queueCheck
  \/ onMessageOf({"rungame"}, MaxMessages)
  \/ onDisconnect
  \/ publishUnheard(MaxMessages)

BrokerSpec == Init /\ [][BrokerNext]_vars /\ WF_vars(BrokerMain)

(***************************************************************************)
(* The running marquee: events that are never empty and no signal, so that *)
(* stop() is not called.  Every thread is scheduled and every external     *)
(* command ends.                                                           *)
(***************************************************************************)
RunMain ==
  \/ SubscriberStart \/ startup \/ getEventCheck \/ getEventGet \/ handleEvent

RunNext ==
  \/ RunMain
  \/ onMessageOf({"rungame"}, MaxEvents)
  \/ QueueReader
  \/ \E w \in Workers : Worker(w)
  \/ \E v \in VideoThreads : VideoThread(v)
  \/ \E s \in ProcSlots : procExit(s)

RunSpec ==
  /\ Init /\ [][RunNext]_vars
  /\ WF_vars(RunMain)
  /\ WF_vars(QueueReader)
  /\ \A w \in Workers : WF_vars(Worker(w))
  /\ \A v \in VideoThreads : WF_vars(VideoThread(v))
  /\ \A s \in ProcSlots : WF_vars(procExit(s))

(***************************************************************************)
(* The event handler alone: no startup media and no queue reader, every    *)
(* configuration of the change rules and of the arcade conversion, and one *)
(* message published at a time while the main thread waits for it.         *)
(***************************************************************************)
HandlerNext ==
  \/ SubscriberStart \/ startupFrom({<<>>}) \/ getEventCheck \/ getEventGet
  \/ readEventsParams \/ handleEventParams
  \/ onMessageOf({"rungame"}, IF msgQueue = <<>> /\ mpc = "ge_get" THEN MaxHandled ELSE 0)

HandlerSpecInit == EngineInit /\ HandlerInit(ChangeConfigs, ArcadeConfigs) /\ FnIdle

HandlerSpec == HandlerSpecInit /\ [][HandlerNext]_vars

(***************************************************************************)
(* Two setMedia calls in a row, by startup() and by the handler of one     *)
(* event, with lists of the same files; no signal.                         *)
(***************************************************************************)
EqualLists == {<<"v.mp4", "a.png">>, <<"a.png", "v.mp4", "a.png">>}

CoalesceMain ==
  \/ SubscriberStart \/ startupFrom(EqualLists) \/ getEventCheck \/ getEventGet
  \/ handleEventFrom(EqualLists)

CoalesceNext ==
  \/ CoalesceMain
  \/ onMessageOf({"rungame"}, MaxEvents)
  \/ QueueReader
  \/ \E w \in Workers : Worker(w)
  \/ \E v \in VideoThreads : VideoThread(v)
  \/ \E s \in ProcSlots : procExit(s)

CoalesceSpec == Init /\ [][CoalesceNext]_vars

(***************************************************************************)
(* The running marquee with the parameter snapshot read for each event     *)
(* from a local file or a remote host, whole or not, and the exception     *)
(* handler of __main__.                                                    *)
(***************************************************************************)
CrashSources ==
  sourcesOf({<<<<"Action", "=", "rungame">>, <<"SystemId", "=", "snes", "\r">>,
               <<"GamePath", "=", "g.zip">>>>})

CrashMain ==
  \/ SubscriberStart \/ startupFrom({<<"v.mp4", "a.png">>}) \/ getEventCheck \/ getEventGet
  \/ readEventsFrom(CrashSources) \/ handleEventParams \/ mainExcept \/ threadingShutdown

CrashNext ==
  \/ CrashMain
  \/ onMessageOf({"rungame"}, MaxEvents)
  \/ QueueReader
  \/ \E w \in Workers : Worker(w)
  \/ \E v \in VideoThreads : VideoThread(v)
  \/ \E s \in ProcSlots : procExit(s)

CrashSpec == Init /\ [][CrashNext]_vars

(***************************************************************************)
(* The same with the local state file missing at every event, and every    *)
(* thread scheduled and every external command ending, as in RunSpec.      *)
(***************************************************************************)
ExitMain ==
  \/ SubscriberStart \/ startupFrom({<<"v.mp4", "a.png">>}) \/ getEventCheck \/ getEventGet
  \/ readEventsFrom({src \in CrashSources : src.fault = "missing_file"})
  \/ mainExcept \/ threadingShutdown

ExitNext ==
  \/ ExitMain
  \/ onMessageOf({"rungame"}, MaxEvents)
  \/ QueueReader
  \/ \E w \in Workers : Worker(w)
  \/ \E v \in VideoThreads : VideoThread(v)
  \/ \E s \in ProcSlots : procExit(s)

ExitSpec ==
  /\ Init /\ [][ExitNext]_vars
  /\ WF_vars(ExitMain)
  /\ WF_vars(QueueReader)
  /\ \A w \in Workers : WF_vars(Worker(w))
  /\ \A v \in VideoThreads : WF_vars(VideoThread(v))
  /\ \A s \in ProcSlots : WF_vars(procExit(s))

(***************************************************************************)
(* EventHandler._hasStateChanged applied to event params, the rule of      *)
(* their action (or none) and a current state.                             *)
(***************************************************************************)
FilterInit ==
  /\ EngineInit
  /\ HandlerInit({CHOOSE c \in ChangeConfigs : c.rungame = "never"},
                 {CHOOSE c \in ArcadeConfigs : ~c.enabled})
  /\ fnArg \in [evParams : ParamSets, rule : Rules \cup {""},
                 current : {fromEvent(p) : p \in ParamSets}]
  /\ fnRes = NoQuery

applyHasStateChanged ==
  /\ fnRes = NoQuery
  /\ LET rules == IF fnArg.rule = "" THEN [a \in {} |-> ""]
                  ELSE [a \in {fnArg.evParams.Action} |-> fnArg.rule]
     IN  fnRes' = <<filterOutcome(fnArg.evParams, rules, fnArg.current)>>
  /\ UNCHANGED <<mainVars, subVars, sigVars, queue, slideVars, histVars, handlerVars, fnArg>>

FilterSpec == FilterInit /\ [][applyHasStateChanged]_vars

(***************************************************************************)
(* EventHandler._convertArcadeSystems applied to event params under a      *)
(* configuration of the arcade meta-system.                                *)
(***************************************************************************)
ArcadeInit ==
  /\ EngineInit
  /\ HandlerInit({CHOOSE c \in ChangeConfigs : c.rungame = "never"},
                 {CHOOSE c \in ArcadeConfigs : ~c.enabled})
  /\ fnArg \in [evParams : [Action : Actions,
                             SystemId : {"", "snes", "mame", "neo", "fbneo", "arcade"},
                             GamePath : GamePaths],
                 enabled : BOOLEAN,
                 systems : {a.systems : a \in ArcadeConfigs}]
  /\ fnRes = NoQuery

applyConvertArcadeSystems ==
  /\ fnRes = NoQuery
  /\ fnRes' = <<convertArcadeSystems(fnArg.evParams, fnArg.enabled, fnArg.systems)>>
  /\ UNCHANGED <<mainVars, subVars, sigVars, queue, slideVars, histVars, handlerVars, fnArg>>

ArcadeSpec == ArcadeInit /\ [][applyConvertArcadeSystems]_vars

(***************************************************************************)
(* MediaManager.getMedia applied to a precedence rule and to the matches   *)
(* of the search terms rom and system in the media directory.              *)
(***************************************************************************)
ResolveInit ==
  /\ EngineInit
  /\ shuffle
  /\ HandlerInit({CHOOSE c \in ChangeConfigs : c.rungame = "never"},
                 {CHOOSE c \in ArcadeConfigs : ~c.enabled})
  /\ LET SubTerms == {"rom", "system", "blank", "bogus"}
         Terms == UNION {[1..n -> SubTerms] : n \in 1..MaxSubTerms}
         PrecedenceRules == UNION {[1..n -> Terms] : n \in 0..MaxTerms}
         Matches == [{"rom", "system"} -> {<<>>, <<"a.png">>, <<"v.mp4", "B.png">>}]
     IN  fnArg \in [rule : PrecedenceRules, found : Matches]
  /\ fnRes = NoQuery

applyGetMedia ==
  /\ fnRes = NoQuery
  /\ fnRes' = <<firstFoundIn(fnArg.rule, fnArg.found)>>
  /\ UNCHANGED <<mainVars, subVars, sigVars, queue, slideVars, histVars, handlerVars, fnArg>>

ResolveSpec == ResolveInit /\ [][applyGetMedia]_vars

(***************************************************************************)
(* MediaManager._getMediaMatching applied to the pattern "<stem>.*", the   *)
(* stem being a form of the stem of a file with its ASCII letters in       *)
(* either case.                                                            *)
(***************************************************************************)
GlobInit ==
  /\ EngineInit
  /\ shuffle
  /\ HandlerInit({CHOOSE c \in ChangeConfigs : c.rungame = "never"},
                 {CHOOSE c \in ArcadeConfigs : ~c.enabled})
  /\ LET Stems == UNION {[1..n -> NameChars] : n \in 1..MaxName}
         \* the forms of a stem with each ASCII letter in lower or upper case
         caseShifts(stem) ==
           {t \in [1..Len(stem) -> NameChars] :
              \A i \in 1..Len(stem) :
                \/ t[i] = stem[i]
                \/ stem[i] \in {"a", "A"} /\ t[i] \in {"a", "A"}}
     IN  fnArg \in {[file |-> ft[1], template |-> ft[2]] : ft \in
                      {x \in Stems \X Stems : x[2] \in caseShifts(x[1])}}
  /\ fnRes = NoQuery

\* globPattern = self._caseInsensitiveGlobPattern(globPattern); glob.glob(...)
applyGetMediaMatching ==
  /\ fnRes = NoQuery
  /\ fnRes' = <<fnmatch(fnArg.file \o <<".", "p", "n", "g">>,
                        caseInsensitiveGlobPattern(fnArg.template \o <<".", "*">>))>>
  /\ UNCHANGED <<mainVars, subVars, sigVars, queue, slideVars, histVars, handlerVars, fnArg>>

GlobSpec == GlobInit /\ [][applyGetMediaMatching]_vars

(***************************************************************************)
(* MQTTSubscriber.getEventParams applied to a state source.                *)
(***************************************************************************)
ParseInit ==
  /\ EngineInit
  /\ shuffle
  /\ HandlerInit({CHOOSE c \in ChangeConfigs : c.rungame = "never"},
                 {CHOOSE c \in ArcadeConfigs : ~c.enabled})
  /\ LET Lines == {<<"Action", "=", "rungame">>, <<"Action", "=", "endgame", "\r">>,
                   <<"SystemId", "=">>, <<"TestKey", "=", "a", "=", "b">>,
                   <<>>, <<"\r">>, <<"novalue">>}
     IN  fnArg \in sourcesOf(UNION {[1..n -> Lines] : n \in 0..MaxLines})
  /\ fnRes = NoQuery

applyGetEventParams ==
  /\ fnRes = NoQuery
  /\ fnRes' = <<getEventParams(fnArg)>>
  /\ UNCHANGED <<mainVars, subVars, sigVars, queue, slideVars, histVars, handlerVars, fnArg>>

ParseSpec == ParseInit /\ [][applyGetEventParams]_vars

(***************************************************************************)
(* Slideshow.setMedia applied to two lists in a row, the queue reader not  *)
(* running.                                                                *)
(***************************************************************************)
SetMediaInit ==
  /\ EngineInit
  /\ HandlerInit(ChangeConfigs, {CHOOSE c \in ArcadeConfigs : ~c.enabled})
  /\ LET Lists == UNION {[1..n -> AllFiles] : n \in 0..MaxLen}
     IN  fnArg \in Lists \X Lists
  /\ fnRes = NoQuery

applySetMedia ==
  /\ Len(queue) < 2
  /\ setMedia(fnArg[Len(queue) + 1])
  /\ fnRes' = queue'
  /\ UNCHANGED <<mainVars, subVars, sigVars, slideVars, handlerVars, fnArg>>

SetMediaSpec == SetMediaInit /\ [][applySetMedia]_vars

(***************************************************************************)
(* Properties of the slideshow engine.                                     *)
(***************************************************************************)
LiveWorkers == {w \in Workers : thr[w] \in {"created", "alive"}}

DisplayProcs == {s \in ProcSlots : procs[s].st = "run" /\ procs[s].kind \in {"viewer", "video"}}

\* C1: at most one slideshow worker thread exists at any time: the queue
\* reader creates and starts a new worker only when the previous one has
\* terminated.
C1_OneWorker == Cardinality(LiveWorkers) <= 1

\* a second worker runs after the first has terminated
C1_Witness == \E u, w \in Workers : thr[u] = "dead" /\ thr[w] = "alive" /\ wpc[w] = "w_imgWait"

\* C2: at most one image viewer or video player process is alive at any
\* time, in every interleaving of the worker, the video thread and the
\* queue reader.  Stated for terminate_viewer = true, where the worker stops
\* each viewer and player it started.
C2_OneDisplayProc == terminateViewer => Cardinality(DisplayProcs) <= 1

\* C3: once setMedia has been called with a set that differs from the
\* current one, the worker of the old set launches no further viewer and
\* starts no further video.
C3_NoStaleLaunch ==
  [][\A w \in Workers :
       (w \in wStale /\ wpc[w] = "w_item" /\ wpc'[w] # "w_item")
         => /\ \A s \in ProcSlots : procs'[s].st = "run" => procs[s].st = "run"
            /\ vpc' = vpc]_vars

\* the threads of the engine have terminated
EngineStopped == qpc = "q_done" /\ \A w \in Workers : thr[w] # "alive"

\* C4: when stop() returns, the queue reader and every slideshow worker
\* have terminated.
C4_StopJoinsThreads == [][stopsDone' > stopsDone => EngineStopped']_vars

\* C5: when stop() returns, no viewer or player process is alive.
C5_StopLeavesNoProc == [][stopsDone' > stopsDone => DisplayProcs' = {}]_vars

\* C6: a second call of stop() returns without blocking: it never has to
\* wait for a slideshow worker.
C6_SecondStopNoWait ==
  ~(stopRet = "__del__" /\ mpc = "st_joinWait" /\ ~joined(mJoin))

\* C7: when readEvents returns after a termination signal, every engine
\* thread has terminated and no viewer or player process is left.
C7_SignalStopsAll ==
  [][(nSignals > 0 /\ mpc' = "m_exit" /\ mpc = "st_qjoin" /\ stopRet = "readEvents")
       => (EngineStopped' /\ \A v \in VideoThreads : vpc'[v] = "free")]_vars

(***************************************************************************)
(* Properties of the signal handler and the subscriber.                    *)
(***************************************************************************)
\* C8: a termination signal sets every event registered with the
\* SignalHandler and leaves an event that has been deregistered as it was.
C8_SignalSetsRegistered ==
  [][nSignals' > nSignals =>
       \A e \in ExitEvents :
         IF e \in Range(sigEvents) THEN flag'[e] ELSE flag'[e] = flag[e]]_vars

\* the signal has arrived after the subscriber deregistered its unset event,
\* and has set the slideshow's event, still registered
C8_Witness ==
  /\ nSignals > 0
  /\ SubscriberExit \notin Range(sigEvents) /\ ~flag[SubscriberExit]
  /\ SlideshowExit \in Range(sigEvents) /\ flag[SlideshowExit]

\* getEvent is waiting for a message
InGetEvent == mpc \in {"ge_check", "ge_get"}

\* C9: getEvent returns None only when the shutdown flag is set; the
\* messages it returns are the published ones in arrival order, each once;
\* and a call waiting on an empty queue with the flag set returns None
\* unless a message arrives first.
C9_GetEvent ==
  /\ [][(mpc # "m_got" /\ mpc' = "m_got" /\ evResult' = None) => flag[SubscriberExit]]_vars
  /\ [](\A i \in 1..Len(delivered) : delivered[i] = i)
  /\ (InGetEvent /\ flag[SubscriberExit] /\ msgQueue = <<>>)
       ~> ((mpc = "m_got" /\ evResult = None) \/ msgQueue # <<>>)

\* getEvent has returned two messages and then, the flag set, None
C9_Witness ==
  /\ delivered = <<1, 2>>
  /\ mpc = "m_got" /\ evResult = None /\ flag[SubscriberExit]

(***************************************************************************)
(* Convergence of the running marquee.                                     *)
(***************************************************************************)
\* the queue reader waits on an empty queue, the current set is the last
\* one queued and, unless it is empty, its worker runs
Settled ==
  /\ queue = <<>> /\ qpc = "q_get"
  /\ currentMedia = lastEnq
  /\ lastEnq # <<>> => slideshowThread # 0 /\ thr[slideshowThread] = "alive"

\* C10: without a stop(), once the setMedia calls have ended the current
\* media set becomes and stays the last set queued, normalised, and a
\* non-empty set has its slideshow worker running.
C10_Converges == <>[]Settled

\* a second set has replaced the first one and its worker runs
C10_Witness ==
  /\ Settled /\ lastEnq # <<>>
  /\ \E w \in Workers : thr[w] = "dead"
  /\ nPublished = MaxEvents /\ msgQueue = <<>> /\ mpc = "ge_get"

(***************************************************************************)
(* Properties of setMedia and of the queue reader's change test.           *)
(***************************************************************************)
\* q lists the elements of L once each, in increasing path order
Canonical(q, L) ==
  /\ Range(q) = Range(L)
  /\ \A i, j \in 1..Len(q) : i < j => PathRank[q[i]] < PathRank[q[j]]

\* C11: setMedia(L) queues the duplicate-free sorted form of L, so that two
\* lists with the same elements queue values the queue reader's change test
\* does not tell apart.
C11_SetMediaCanonical ==
  /\ \A i \in 1..Len(queue) : Canonical(queue[i], fnArg[i])
  /\ (Len(queue) = 2 /\ Range(fnArg[1]) = Range(fnArg[2]))
       => ~mediaChanged(queue[2], queue[1])

\* two different lists of the same two files, one with a duplicate, queued
C11_Witness ==
  /\ Len(queue) = 2 /\ fnRes = queue
  /\ fnArg[1] = <<"a.png", "B.png", "a.png">> /\ fnArg[2] = <<"B.png", "a.png">>

\* the worker threads the queue reader has created so far
StartedWorkers == {w \in Workers : thr[w] # "unborn"}

\* C12: a dequeued set equal to the current set sends the queue reader back to
\* its loop, with no media-change signal and no new worker; after two setMedia
\* calls with the same files the signal is raised only while nothing is
\* displayed, and at most one worker is ever created.
C12_EqualSetNoRestart ==
  /\ [](Cardinality(StartedWorkers) <= 1)
  /\ [][/\ (qpc = "q_chk" /\ qpc' # "q_chk" /\ qMedia = currentMedia)
             => (qpc' = "q_loop" /\ mediaChange' = mediaChange /\ thr' = thr)
        /\ (qpc # "q_set" /\ qpc' = "q_set") => currentMedia = <<>>
        /\ mediaChange' > mediaChange => currentMedia = <<>>]_vars

\* the second of the two sets has been dequeued while the first is displayed
C12_Witness ==
  /\ qpc = "q_chk" /\ qMedia = currentMedia /\ currentMedia = <<"a.png", "v.mp4">>
  /\ Cardinality(StartedWorkers) = 1 /\ nPublished = 1

(***************************************************************************)
(* Properties of the event handler.                                        *)
(***************************************************************************)
\* C13: after the events (a1, sleep, wakeup), a1 neither sleep nor wakeup,
\* the media query made for wakeup has the params of a1, and the current state
\* is the state a1 induced, whatever was handled before a1.
C13_WakeupRestores ==
  (/\ Len(recent) = 3
   /\ recent[1].Action \notin {"sleep", "wakeup"}
   /\ recent[2].Action = "sleep"
   /\ recent[3].Action = "wakeup")
    => (hQuery = <<recent[1]>> /\ currentState = fromEvent(recent[1]))

\* an event, then rungame of another system, then sleep and wakeup
C13_Witness ==
  /\ Len(delivered) = 4 /\ mpc = "ge_check"
  /\ Len(recent) = 3
  /\ recent[1].Action = "rungame"
  /\ recent[2].Action = "sleep" /\ recent[2].SystemId # recent[1].SystemId
  /\ recent[3].Action = "wakeup"
  /\ currentState.action = "rungame"

\* one event is handled in this step
Handled == mpc = "m_params" /\ mpc' = "ge_check"

\* C14: the event handled next after an endgame event is found state-changed
\* and a media set is queued for it, whatever the change rule of its action.
C14_AfterEndgameChanged ==
  [][(Handled /\ recent # <<>> /\ recent[Len(recent)].Action = "endgame")
       => (hChanged' /\ Len(queue') = Len(queue) + 1)]_vars

\* endgame, then rungame under the rule never, then endgame, then an event
\* without Action and so without a rule: a set was queued for each
C14_Witness ==
  /\ Len(recent) = 3 /\ Len(queue) = 4 /\ hChanged
  /\ recent[1].Action = "rungame" /\ ruleOf(changeRules, "rungame") = "never"
  /\ recent[2].Action = "endgame"
  /\ recent[3] = NoParams /\ ruleOf(changeRules, "") = ""

(***************************************************************************)
(* Properties of the state-change filter.                                  *)
(***************************************************************************)
\* C15: _hasStateChanged answers changed for wakeup; else changed when the
\* current action is endgame; else by the rule of the new action: unchanged
\* for never and for no entry, changed for always, changed exactly when the
\* action, the system or the game differs for the rules action, system and
\* game, and changed exactly when system or game differs for system/game.
C15_DecisionChain ==
  fnRes # NoQuery =>
    LET p == fnArg.evParams
        cur == fnArg.current
        rule == fnArg.rule
        changed == fnRes[1].changed
    IN  /\ p.Action = "wakeup" => changed
        /\ (p.Action # "wakeup" /\ cur.action = "endgame") => changed
        /\ (p.Action # "wakeup" /\ cur.action # "endgame") =>
             /\ rule \in {"never", ""} => ~changed
             /\ rule = "always" => changed
             /\ rule = "action" => (changed <=> p.Action # cur.action)
             /\ rule = "system" => (changed <=> p.SystemId # cur.system)
             /\ rule = "game" => (changed <=> p.GamePath # cur.game)
             /\ rule = "system/game"
                  => (changed <=> (p.SystemId # cur.system \/ p.GamePath # cur.game))

\* the rule system/game answered changed for the same system and another game
C15_Witness ==
  /\ fnRes # NoQuery /\ fnRes[1].changed
  /\ fnArg.rule = "system/game"
  /\ fnArg.evParams.Action = "rungame" /\ fnArg.current.action = "rungame"
  /\ fnArg.evParams.SystemId = fnArg.current.system
  /\ fnArg.evParams.GamePath # fnArg.current.game

\* the rule is neither empty nor one of the six the filter knows
UnknownRule ==
  fnArg.rule \notin {"", "never", "always", "action", "system", "game", "system/game"}

\* C16 as stated: with an unknown rule for the new action, _hasStateChanged
\* logs an error and answers changed.
C16_UnknownRuleLogged ==
  (fnRes # NoQuery /\ UnknownRule) => (fnRes[1].changed /\ fnRes[1].error)

\* C16: with an unknown rule for the new action, _hasStateChanged answers
\* changed, and it logs an error exactly when the new action is not wakeup and
\* the current action is not endgame.
C16_UnknownRuleChanged ==
  (fnRes # NoQuery /\ UnknownRule) =>
    /\ fnRes[1].changed
    /\ fnRes[1].error <=>
         (fnArg.evParams.Action # "wakeup" /\ fnArg.current.action # "endgame")

\* an unknown rule for rungame, nothing else differing: changed, with an error
C16_Witness ==
  /\ fnRes = <<[changed |-> TRUE, error |-> TRUE]>> /\ UnknownRule
  /\ fnArg.evParams.Action = "rungame"
  /\ fnArg.current = fromEvent(fnArg.evParams)

\* this step handles a systembrowsing event of the current system under the
\* rule systembrowsing = system
SameSystemBrowsed ==
  /\ Handled
  /\ changeRules.systembrowsing = "system"
  /\ recent'[Len(recent')].Action = "systembrowsing"
  /\ recent'[Len(recent')].SystemId = currentState.system

\* C17 as stated: under the rule systembrowsing = system, a systembrowsing
\* event whose SystemId is the system of the current state queues no media.
C17_SameSystemNoRestart ==
  [][SameSystemBrowsed => (~hChanged' /\ queue' = queue)]_vars

\* C17: under the rule systembrowsing = system, a systembrowsing event whose
\* SystemId is the system of the current state queues no media, unless the
\* action of the current state is endgame.
C17_SameSystemNoRestartUnlessEndgame ==
  [][(SameSystemBrowsed /\ currentState.action # "endgame")
       => (~hChanged' /\ queue' = queue)]_vars

\* rungame, then systembrowsing of the same system: found unchanged
C17_Witness ==
  /\ changeRules.systembrowsing = "system"
  /\ Len(recent) = 2 /\ mpc = "ge_check"
  /\ recent[1].Action = "rungame" /\ recent[2].Action = "systembrowsing"
  /\ recent[2].SystemId = recent[1].SystemId
  /\ currentState = fromEvent(recent[2])
  /\ ~hChanged /\ hQuery = NoQuery

\* C18: handling an event puts exactly one media set on the queue, the one
\* found for the params of the query, when the filter answered changed, and
\* leaves the queue as it was when the filter answered unchanged.
C18_QueuedIffChanged ==
  [][Handled =>
       IF hChanged'
         THEN /\ hQuery' # NoQuery
              /\ queue' = Append(queue, Normalise(getMedia(hQuery'[1])))
         ELSE /\ hQuery' = NoQuery
              /\ queue' = queue]_vars

\* two events handled, the first found changed and the second unchanged
C18_Witness ==
  /\ Len(recent) = 2 /\ mpc = "ge_check"
  /\ ~hChanged /\ Len(queue) = 1
  /\ queue[1] = Normalise(getMedia(recent[1]))

\* C19: the params handed to _handleEvent, and so to the filter and to the
\* media query, carry the received event as their Action, whatever Action the
\* snapshot held when it was read.
C19_ActionIsEvent ==
  /\ mpc = "m_params" => hParams.Action = evResult
  /\ (mpc = "ge_check" /\ recent # <<>>) => recent[Len(recent)].Action = evResult

(***************************************************************************)
(* Properties of the arcade conversion.                                    *)
(***************************************************************************)
\* the words of a string, split on spaces
Words(chars) ==
  {SubSeq(chars, i, j) : <<i, j>> \in
     {ij \in (1..Len(chars)) \X (1..Len(chars)) :
        /\ ij[1] <= ij[2]
        /\ \A k \in ij[1]..ij[2] : chars[k] # " "
        /\ (ij[1] = 1 \/ chars[ij[1] - 1] = " ")
        /\ (ij[2] = Len(chars) \/ chars[ij[2] + 1] = " ")}}

\* C20: _convertArcadeSystems returns the params with SystemId rewritten to
\* arcade exactly when the arcade meta-system is enabled, SystemId is not
\* empty and SystemId is one of the ids of the arcade_systems list, and
\* returns the params as they were otherwise.
C20_RewritesListMembers ==
  fnRes # NoQuery =>
    LET p == fnArg.evParams
        member == /\ fnArg.enabled
                  /\ p.SystemId # ""
                  /\ Chars[p.SystemId] \in Words(Chars[fnArg.systems])
    IN  fnRes[1] = IF member THEN [p EXCEPT !.SystemId = "arcade"] ELSE p

(***************************************************************************)
(* Properties of the media resolver.                                       *)
(***************************************************************************)
\* the concatenation of the matches of the subterms of a term, in order
RECURSIVE Yield(_, _)
Yield(term, found) ==
  IF term = <<>> THEN <<>>
  ELSE (IF Head(term) \in DOMAIN found THEN found[Head(term)] ELSE <<>>)
         \o Yield(Tail(term), found)

\* the terms at which the evaluation of the rule ends: a blank term or a term
\* with matches, no such term before it
Stops(rule, found) ==
  {i \in 1..Len(rule) :
     /\ rule[i] = <<"blank">> \/ Yield(rule[i], found) # <<>>
     /\ \A k \in 1..(i - 1) : rule[k] # <<"blank">> /\ Yield(rule[k], found) = <<>>}

\* C21: getMedia returns the matches of the first term of the rule that has
\* any, a compound term having the matches of its subterms concatenated in
\* subterm order; the terms after it do not count.
C21_FirstTermWithFiles ==
  fnRes # NoQuery =>
    \A i \in Stops(fnArg.rule, fnArg.found) :
      fnArg.rule[i] # <<"blank">> =>
        /\ fnRes[1] = Yield(fnArg.rule[i], fnArg.found)
        /\ fnRes[1] = firstFoundIn(SubSeq(fnArg.rule, 1, i), fnArg.found)

\* a first term without matches, then a compound term with matches of both
\* subterms, then a term that would match too
C21_Witness ==
  /\ fnRes = <<<<"v.mp4", "B.png", "a.png">>>>
  /\ fnArg.rule = <<<<"bogus">>, <<"rom", "system">>, <<"system">>>>
  /\ fnArg.found = [rom |-> <<"v.mp4", "B.png">>, system |-> <<"a.png">>]

\* C22: getMedia returns the empty list exactly when the evaluation of the
\* rule ends at a blank term, no term before it having matches; otherwise the
\* list it returns is not empty.
C22_EmptyIffBlank ==
  fnRes # NoQuery =>
    (fnRes[1] = <<>> <=>
       \E i \in Stops(fnArg.rule, fnArg.found) : fnArg.rule[i] = <<"blank">>)

\* a term without matches, then blank, then a term that would match
C22_Witness ==
  /\ fnRes = <<<<>>>>
  /\ fnArg.rule = <<<<"rom", "blank">>, <<"blank">>, <<"system">>>>
  /\ fnArg.found = [rom |-> <<>>, system |-> <<"a.png">>]

\* C23: when no term of the rule has matches and none is blank, getMedia
\* returns the list of the default image alone.
C23_DefaultImage ==
  (/\ fnRes # NoQuery
   /\ \A i \in 1..Len(fnArg.rule) :
        fnArg.rule[i] # <<"blank">> /\ Yield(fnArg.rule[i], fnArg.found) = <<>>)
    => (fnRes[1] = DefaultImage /\ Len(fnRes[1]) = 1)

\* three terms, none with matches, blank only as a subterm
C23_Witness ==
  /\ fnRes = <<<<"a.png">>>>
  /\ fnArg.rule = <<<<"rom">>, <<"blank", "system">>, <<"bogus">>>>
  /\ fnArg.found = [rom |-> <<>>, system |-> <<>>]

\* C24: the pattern made from a form of a file name with its ASCII letters
\* in either case matches the file.
C24_CaseShiftedMatches == fnRes # NoQuery => fnRes[1]

(***************************************************************************)
(* Properties of the parameter snapshot.                                   *)
(***************************************************************************)
\* the lines with an "=", which have a key and a value
Parseable(lines) == {i \in 1..Len(lines) : "=" \in Range(lines[i])}

\* the text of a line before its first "=" and the text after it, without
\* the carriage returns at its ends
KeyOf(line) ==
  LET i == CHOOSE k \in 1..Len(line) : line[k] = "=" /\ \A j \in 1..(k - 1) : line[j] # "="
  IN  SelectSeq(SubSeq(line, 1, i - 1), LAMBDA c : c # "\r")

ValueOf(line) ==
  LET i == CHOOSE k \in 1..Len(line) : line[k] = "=" /\ \A j \in 1..(k - 1) : line[j] # "="
  IN  SelectSeq(SubSeq(line, i + 1, Len(line)), LAMBDA c : c # "\r")

\* C25: getEventParams returns, without raising, the entries of the lines of
\* the form key=value, each split at its first "=", the last line of a key
\* giving its value; the other lines are passed over.
C25_UnparseableSkipped ==
  (fnRes # NoQuery /\ fnArg.fault = "none") =>
    LET lines == fnArg.lines
        keys == {KeyOf(lines[i]) : i \in Parseable(lines)}
        lastOf(k) == CHOOSE i \in Parseable(lines) :
                       /\ KeyOf(lines[i]) = k
                       /\ \A j \in Parseable(lines) : KeyOf(lines[j]) = k => j <= i
    IN  /\ fnRes[1].raised = ""
        /\ DOMAIN fnRes[1].params = keys
        /\ \A k \in keys : fnRes[1].params[k] = ValueOf(lines[lastOf(k)])

\* C26: when the read of the parameter snapshot fails (missing local file,
\* malformed JSON, HTTP error), getEventParams returns an empty mapping and
\* the main thread goes on in the event loop: no exception leaves readEvents.
C26_ReadFailureContained ==
  (fnRes # NoQuery /\ fnArg.fault # "none") =>
    /\ fnRes[1].raised = ""
    /\ fnRes[1].params = <<>>
    /\ mpc \notin {"m_except", "m_shutdown", "m_exit1"}

\* C27: an exception that leaves the event loop is followed by the end of
\* the process with status 1, whatever the slideshow threads are doing.
C27_ExceptionExitsOne == (mpc = "m_except") ~> (mpc = "m_exit1")

\* the process has ended while a worker was waiting for a video to end and
\* the video thread for its player, which runs on
C27_Witness ==
  /\ mpc = "m_exit1"
  /\ \E w \in Workers : thr[w] = "killed" /\ wpc[w] = "w_select"
  /\ \E v \in VideoThreads : vpc[v] = "v_killed" /\ Running(vH[v])

(***************************************************************************)
(* Order of the steps at program start.                                    *)
(***************************************************************************)
\* C28: the startup media are fetched and queued before the subscriber is
\* started and before any media of an event are queued: while startup() has
\* not run the subscriber is not connected and nothing has been queued.
C28_StartupFirst ==
  mpc \in {"m_start", "m_startup"} => ~subscribed /\ queue = <<>> /\ lastEnq = <<>>

(***************************************************************************)
(* The worker and the media-change event.                                  *)
(***************************************************************************)
\* C29: once the queue reader has set the media-change event, the worker
\* starts no further viewer and no further video player before it exits:
\* with the event set, no worker goes from the head of an item to the wait
\* on a video, and none goes to the wait on an image with a viewer launched.
C29_NoLaunchAfterChange ==
  [][\A w \in Workers :
       (is_set(mediaChange) /\ thr[w] = "alive" /\ wpc[w] = "w_item") =>
         /\ wpc'[w] # "w_select"
         /\ wpc'[w] = "w_imgWait" => procs' = procs]_vars

\* C30: when the worker's wait on a video item has ended and the worker has
\* stopped the player and cleared the display, the player of that item is
\* not running: no video player runs while the worker is at the test and
\* pause that follow a video item.
C30_PlayerStopped ==
  \A w \in Workers :
    (thr[w] = "alive" /\ wpc[w] = "w_chk" /\ isVideo(wOrder[w][wIdx[w]])) =>
      ~\E s \in ProcSlots : procs[s].kind = "video" /\ procs[s].st = "run"

(***************************************************************************)
(* The worker on a set of one image.                                       *)
(***************************************************************************)
\* the worker w displays a set of exactly one item, an image
OneImage(w) == thr[w] = "alive" /\ Len(wOrder[w]) = 1 /\ ~isVideo(wOrder[w][1])

\* C31: on a set of exactly one image the worker launches the viewer once
\* and nothing else until the media-change event is set: while the event is
\* not set the worker stays in its wait after the launch, and it is past
\* that wait only with the event set.
C31_SingleImageOnce ==
  /\ [][\A w \in Workers :
          (OneImage(w) /\ wpc[w] = "w_imgWait" /\ ~is_set(mediaChange)) =>
            wpc'[w] = "w_imgWait"]_vars
  /\ [](\A w \in Workers :
          (OneImage(w) /\ wpc[w] \notin {"w_loop", "w_item", "w_imgWait"}) =>
            is_set(mediaChange))

\* the worker waits on its only image, the viewer running, the event not set
C31_Witness ==
  \E w \in Workers :
    /\ OneImage(w) /\ wpc[w] = "w_imgWait" /\ ~is_set(mediaChange)
    /\ Running(subProcess) /\ procs[subProcess].kind = "viewer"

(***************************************************************************)
(* Failure to launch a viewer or a player.                                 *)
(***************************************************************************)
\* C32: when the launch of a viewer or a player fails the worker does not
\* end and does not wait on the failed item for ever: it is alive while the
\* failure is that of its current item, and it goes on to the test that
\* follows the item, where the next item or the next pass begins.
C32_FailedLaunchSkipped ==
  /\ [](\A w \in launchFailed : thr[w] = "alive")
  /\ \A w \in Workers : (w \in launchFailed) ~> (w \notin launchFailed)

(***************************************************************************)
(* Slideshow._stopSubProcess.                                              *)
(***************************************************************************)
\* C33: _stopSubProcess terminates the recorded subprocess, waits for it up
\* to the timeout and kills it if it has not exited, and in both cases the
\* child has been reaped when _stopSubProcess returns: the process it was
\* called on is then neither running nor a zombie.
C33_StopReaps ==
  [][\A w \in Workers :
       (thr[w] = "alive" /\ wpc[w] \in {"w_stop", "w_kill"} /\ wpc'[w] = "w_clr"
          /\ subProcess \in ProcSlots) =>
         procs'[subProcess].st = "free"]_vars

(***************************************************************************)
(* The subscriber after a disconnection.                                   *)
(***************************************************************************)
\* C34: after an unexpected disconnection the network loop keeps running and
\* the client reconnects: every message the broker publishes once the
\* subscriber has been started is eventually returned by getEvent.
C34_DeliveredAfterDisconnect ==
  \A i \in 1..MaxMessages : (nPublished >= i) ~> (i \in Range(delivered))

(***************************************************************************)
(* The state the event handler records.                                    *)
(***************************************************************************)
\* C35: after an event whose action is not wakeup is handled, currentState is
\* the state of that event's params (after the arcade conversion), whether
\* the filter found a change or not; and after a sleep event stateBeforeSleep
\* is what currentState was before.
C35_StateOverwritten ==
  [][Handled =>
       LET evParams == recent'[Len(recent')]
       IN  /\ evParams.Action # "wakeup" => currentState' = fromEvent(evParams)
           /\ evParams.Action = "sleep" => stateBeforeSleep' = currentState]_vars

\* a sleep event found unchanged has been handled after an event of another
\* action
C35_Witness ==
  /\ mpc = "ge_check" /\ Len(recent) >= 2 /\ ~hChanged
  /\ recent[Len(recent)].Action = "sleep"
  /\ currentState = fromEvent(recent[Len(recent)])
  /\ stateBeforeSleep = fromEvent(recent[Len(recent) - 1])
  /\ stateBeforeSleep # currentState

\* C39: after a wakeup event is handled, in any sequence of events,
\* currentState is the state of the params the media query for that wakeup is
\* made with.
C39_WakeupStateOfQuery ==
  [][(Handled /\ recent'[Len(recent')].Action = "wakeup" /\ hQuery' # NoQuery)
       => currentState' = fromEvent(hQuery'[1])]_vars

(***************************************************************************)
(* The media set of a running slideshow.                                   *)
(***************************************************************************)
\* C36: while a slideshow worker is alive the current media set is not
\* assigned, and every item the worker takes to launch is in the current
\* media set, which is therefore the set current when the worker was started.
C36_SetFixedWhileWorker ==
  /\ [][(\E w \in Workers : thr[w] = "alive") => currentMedia' = currentMedia]_vars
  /\ [](\A w \in Workers :
          thr[w] = "alive" => Range(wOrder[w]) \subseteq Range(currentMedia))

\* a worker shows an item of its set while the queue reader, holding another
\* set, waits for it to end
C36_Witness ==
  \E w \in Workers :
    /\ thr[w] = "alive" /\ wpc[w] = "w_imgWait" /\ wOrder[w] # <<>>
    /\ Running(subProcess)
    /\ qpc = "q_join" /\ qMedia # currentMedia /\ slideshowThread = w

(***************************************************************************)
(* The exit of the read loop.                                              *)
(***************************************************************************)
\* C37: readEvents leaves its loop to stop the slideshow only when the exit
\* flag of the subscriber has been set: no message received from the broker
\* makes it leave.
C37_ExitOnlyOnFlag ==
  [][(mpc = "m_got" /\ mpc' = "st_set") => flag[SubscriberExit]]_vars

(***************************************************************************)
(* The worker's wait on a video item.                                      *)
(***************************************************************************)
\* C38: when the worker's wait on a video item returns with the video-finish
\* event readable, the video thread of the current item has ended, that is
\* its player has exited or could not be launched: the event is never one
\* left set by an earlier video.
C38_NoStaleFinish ==
  [][\A w \in Workers :
       (/\ thr[w] = "alive" /\ wpc[w] = "w_select" /\ wpc'[w] = "w_stop"
        /\ is_set(videoFinish))
         => vpc[videoThread] = "free"]_vars

(***************************************************************************)
(* WaitableEvent under concurrent set() calls.                             *)
(***************************************************************************)
\* no set() call on _mediaChange is between its test and its write
NoSetInProgress == mpc # "st_setWr" /\ qpc # "q_setWr"

\* C40: the pipe of the media-change event never holds more than one unread
\* byte, so that after set() calls of several threads have returned one
\* clear() leaves the event not set.
C40_OneByteInPipe ==
  /\ [](mediaChange <= 1)
  /\ [][(qpc = "q_clear" /\ qpc' # "q_clear" /\ NoSetInProgress)
          => ~is_set(mediaChange')]_vars

====
